---- MODULE Spec2Model ----
(***************************************************************************)
(* Keytap-Analyzer: the event-synchronised ensemble-averaging engine       *)
(* (utils/waveformProcessing.ts) and the recorder hook that feeds it       *)
(* (hooks/useAudioRecorder.ts).                                            *)
(*                                                                         *)
(* Number model.  The program computes on IEEE floats.  Here every float   *)
(* lives on an integer grid: Float32 samples are integers on an amplitude  *)
(* grid, millisecond timestamps and audio-clock readings are integers on a *)
(* 1 ms grid, and a float division whose result is stored rounds down to   *)
(* the grid (F32Div).  Math.floor is \div (which floors).  Arrays are      *)
(* 1-based sequences; every index NAMED in the model (peakIndex, window    *)
(* starts, output indices j) keeps the program's 0-based value, so data[i] *)
(* of the program is data[i + 1] here.                                     *)
(***************************************************************************)
EXTENDS Integers, Sequences, FiniteSets, TLC

VARIABLES
    call,       \* one call of a pure function: [fn, args, done, ret]
    state,         \* the useState cells of the hook, after the set* calls so far
    rendered,   \* state as of the last committed render
    stopEnv,    \* the state values the current stopRecording closure holds
    mediaStreamRef,                \* mediaStreamRef.current is set
    audioContextRef,               \* audioContextRef.current: Null or Some(state)
    firstChunkReceivedRef,         \* firstChunkReceivedRef.current
    pendingKeyDownTimestampsRef,   \* pendingKeyDownTimestampsRef.current
    pendingKeyUpTimestampsRef,     \* pendingKeyUpTimestampsRef.current
    keyTimestampsRef,              \* keyTimestampsRef.current
    keyUpTimestampsRef,            \* keyUpTimestampsRef.current
    sampleTimeMapRef,              \* sampleTimeMapRef.current
    audioContextStartTimeRef,      \* audioContextStartTimeRef.current (ms)
    finalRecordingDataRef,         \* finalRecordingDataRef.current
    runs,       \* the calls of startRecording that got past its guards
    clock,                \* AudioContext.currentTime (ms)
    firedDown,  \* history: clock readings of the key-downs handled in the
                \* newest session before its first block
    firedUp,    \* history: the same for key-ups
    firstInputStart,            \* history: input start time of the newest
                                \* session's first block, Null before it
    measurementHistory,         \* KeytapVisualizer: the measurementHistory state
    nextMeasurementId,          \* KeytapVisualizer: the nextMeasurementId state
    recordingSessionRef,        \* recordingSessionRef.current
    lastProcessedSessionRef,    \* lastProcessedSessionRef.current
    imports     \* the calls of handleImportMeasurement so far: the
                \* nextMeasurementId each closure holds and its position

vars == <<call, state, rendered, stopEnv, mediaStreamRef, audioContextRef, firstChunkReceivedRef,
          pendingKeyDownTimestampsRef, pendingKeyUpTimestampsRef, keyTimestampsRef,
          keyUpTimestampsRef, sampleTimeMapRef, audioContextStartTimeRef,
          finalRecordingDataRef, runs, clock, firedDown, firedUp,
          firstInputStart, measurementHistory, nextMeasurementId,
          recordingSessionRef, lastProcessedSessionRef, imports>>

----------------------------------------------------------------------------
(* Small helpers for JavaScript values *)

\* a nullable value: Null, or Some(x)
Null == <<>>
Some(x) == <<x>>
IsNull(v) == v = Null
Val(v) == v[1]

\* JavaScript's Infinity, above every timestamp the model produces
Infinity == 1000000

\* the fallback window length (ms) of an anchor with no later event
FallbackMs == 100

Min(a, b) == IF a <= b THEN a ELSE b
Max(a, b) == IF a >= b THEN a ELSE b
Abs(x) == IF x < 0 THEN -x ELSE x

\* seeded fault: the sample count is rounded up
MsToSamples_RoundUp(ms, sampleRate) == (ms * sampleRate + 999) \div 1000

\* Math.floor((ms / 1000) * sampleRate)
MsToSamples(ms, sampleRate) == (ms * sampleRate) \div 1000

\* a float quotient stored into a Float32Array: rounded down to the grid
F32Div(a, b) == a \div b

\* Float32Array.prototype.slice(start, end) for 0 <= start < end <= length
Slice(data, start, end) == [k \in 1..(end - start) |-> data[start + k]]

----------------------------------------------------------------------------
(* utils/waveformProcessing.ts *)

\* seeded fault: a sample as large as the running maximum replaces it
RECURSIVE PeakScan_LastWins(_, _, _, _, _)
PeakScan_LastWins(data, i, searchEnd, maxValue, peakIndex) ==
    IF i >= searchEnd THEN peakIndex
    ELSE IF Abs(data[i + 1]) >= maxValue
         THEN PeakScan_LastWins(data, i + 1, searchEnd, Abs(data[i + 1]), i)
         ELSE PeakScan_LastWins(data, i + 1, searchEnd, maxValue, peakIndex)

\* the for loop of findPeakIndex, from index i with the running maximum
RECURSIVE PeakScan(_, _, _, _, _)
PeakScan(data, i, searchEnd, maxValue, peakIndex) ==
    IF i >= searchEnd THEN peakIndex
    ELSE IF Abs(data[i + 1]) > maxValue
         THEN PeakScan(data, i + 1, searchEnd, Abs(data[i + 1]), i)
         ELSE PeakScan(data, i + 1, searchEnd, maxValue, peakIndex)

\* findPeakIndex(data, searchStartSamples?, searchRangeSamples?); an omitted
\* argument is Null.  A range of 0 is falsy and scans to the end of data.
findPeakIndex(data, searchStartSamples, searchRangeSamples) ==
    LET start == IF IsNull(searchStartSamples) THEN 0 ELSE Val(searchStartSamples)
        searchEnd == IF IsNull(searchRangeSamples) \/ Val(searchRangeSamples) = 0
                     THEN Len(data)
                     ELSE Min(start + Val(searchRangeSamples), Len(data))
    IN PeakScan(data, start, searchEnd, 0, start)

\* seeded fault: an alternate at the anchor's own time ends the window
RECURSIVE NextAlternateTime_NotStrict(_, _, _)
NextAlternateTime_NotStrict(alternateTimestamps, k, currentTime) ==
    IF k > Len(alternateTimestamps) THEN Infinity
    ELSE IF alternateTimestamps[k] >= currentTime THEN alternateTimestamps[k]
    ELSE NextAlternateTime_NotStrict(alternateTimestamps, k + 1, currentTime)

\* the inner loop of calculateWindowEndTimestamps: the first alternate, in
\* array order, that is later than currentTime
RECURSIVE NextAlternateTime(_, _, _)
NextAlternateTime(alternateTimestamps, k, currentTime) ==
    IF k > Len(alternateTimestamps) THEN Infinity
    ELSE IF alternateTimestamps[k] > currentTime THEN alternateTimestamps[k]
    ELSE NextAlternateTime(alternateTimestamps, k + 1, currentTime)

calculateWindowEndTimestamps(timestamps, alternateTimestamps) ==
    [i \in 1..Len(timestamps) |->
        LET currentTime == timestamps[i]
            nextSameTime == IF i + 1 <= Len(timestamps) THEN timestamps[i + 1] ELSE Infinity
            nextAlternateTime == NextAlternateTime(alternateTimestamps, 1, currentTime)
            endTime == Min(nextSameTime, nextAlternateTime)
        IN IF endTime = Infinity THEN currentTime + FallbackMs ELSE endTime]

\* the accepted window of anchor i, given its bounds in the recording
WindowOf(p, i, windowStart, windowEnd, endTimestamp) ==
    LET windowData == Slice(p.audioData, windowStart, windowEnd)
    IN [data |-> windowData,
        peakIndex |-> findPeakIndex(windowData, Null, Null),
        timestampMs |-> p.timestamps[i],
        windowLengthMs |-> (endTimestamp - p.timestamps[i]) + p.offsetMs * 2]

\* seeded fault: a window starting at sample 0 is rejected
ExtractWindow_StartPositive(p, i) ==
    LET timestamp == p.timestamps[i]
        endTimestamp == IF i <= Len(p.endTimestamps) THEN p.endTimestamps[i]
                        ELSE timestamp + FallbackMs
        windowOffsetSamples == MsToSamples(p.offsetMs, p.sampleRate)
        windowStart == MsToSamples(timestamp, p.sampleRate) - windowOffsetSamples
        windowEnd == Min(MsToSamples(endTimestamp, p.sampleRate) + windowOffsetSamples,
                         Len(p.audioData))
    IN IF windowStart > 0 /\ windowEnd > windowStart
       THEN Some(WindowOf(p, i, windowStart, windowEnd, endTimestamp))
       ELSE Null

\* seeded fault: an empty window is accepted
ExtractWindow_AcceptEmpty(p, i) ==
    LET timestamp == p.timestamps[i]
        endTimestamp == IF i <= Len(p.endTimestamps) THEN p.endTimestamps[i]
                        ELSE timestamp + FallbackMs
        windowOffsetSamples == MsToSamples(p.offsetMs, p.sampleRate)
        windowStart == MsToSamples(timestamp, p.sampleRate) - windowOffsetSamples
        windowEnd == Min(MsToSamples(endTimestamp, p.sampleRate) + windowOffsetSamples,
                         Len(p.audioData))
    IN IF windowStart >= 0 /\ windowStart <= Len(p.audioData)
       THEN Some(WindowOf(p, i, windowStart, Max(windowEnd, windowStart), endTimestamp))
       ELSE Null

\* one iteration of the window-collection loop: the window of anchor i, or
\* Null when the anchor is skipped
ExtractWindow(p, i) ==
    LET timestamp == p.timestamps[i]
        endTimestamp == IF i <= Len(p.endTimestamps) THEN p.endTimestamps[i]
                        ELSE timestamp + FallbackMs
        windowOffsetSamples == MsToSamples(p.offsetMs, p.sampleRate)
        sampleIndex == MsToSamples(timestamp, p.sampleRate)
        endSampleIndex == MsToSamples(endTimestamp, p.sampleRate)
        windowStart == sampleIndex - windowOffsetSamples
        windowEnd == Min(endSampleIndex + windowOffsetSamples, Len(p.audioData))
    IN IF windowStart >= 0 /\ windowEnd > windowStart
       THEN Some(WindowOf(p, i, windowStart, windowEnd, endTimestamp))
       ELSE Null

\* the window-collection loop: windowInfos after anchors i..n
RECURSIVE CollectWindows(_, _)
CollectWindows(p, i) ==
    IF i > Len(p.timestamps) THEN <<>>
    ELSE LET w == ExtractWindow(p, i)
         IN (IF IsNull(w) THEN <<>> ELSE <<Val(w)>>) \o CollectWindows(p, i + 1)

\* seeded fault: the post-peak extent counts the peak sample itself
RECURSIVE MinEndOffset_CountPeak(_, _)
MinEndOffset_CountPeak(windowInfos, k) ==
    IF k > Len(windowInfos) THEN Infinity
    ELSE Min(Len(windowInfos[k].data) - windowInfos[k].peakIndex,
             MinEndOffset_CountPeak(windowInfos, k + 1))

\* minEndOffset after the envelope loop over windows k..n
RECURSIVE MinEndOffset(_, _)
MinEndOffset(windowInfos, k) ==
    IF k > Len(windowInfos) THEN Infinity
    ELSE Min(Len(windowInfos[k].data) - windowInfos[k].peakIndex - 1,
             MinEndOffset(windowInfos, k + 1))

\* minStartOffset after the envelope loop (computed by the code, never used)
RECURSIVE MinStartOffset(_, _, _)
MinStartOffset(windowInfos, k, peakPositionInOutput) ==
    IF k > Len(windowInfos) THEN 0
    ELSE Max(peakPositionInOutput - windowInfos[k].peakIndex,
             MinStartOffset(windowInfos, k + 1, peakPositionInOutput))

\* seeded fault: every window is counted at every index, covering it or not
RECURSIVE SumAt_CountAll(_, _, _, _, _)
SumAt_CountAll(windowInfos, k, j, peakAlign, peakPositionInOutput) ==
    IF k > Len(windowInfos) THEN [sum |-> 0, count |-> 0]
    ELSE LET window == windowInfos[k]
             shift == IF peakAlign THEN peakPositionInOutput - window.peakIndex ELSE 0
             sourceIndex == j - shift
             rest == SumAt_CountAll(windowInfos, k + 1, j, peakAlign, peakPositionInOutput)
         IN IF sourceIndex >= 0 /\ sourceIndex < Len(window.data)
            THEN [sum |-> rest.sum + window.data[sourceIndex + 1], count |-> rest.count + 1]
            ELSE [sum |-> rest.sum, count |-> rest.count + 1]

\* seeded fault: the shift has the wrong sign
RECURSIVE SumAt_ShiftReversed(_, _, _, _, _)
SumAt_ShiftReversed(windowInfos, k, j, peakAlign, peakPositionInOutput) ==
    IF k > Len(windowInfos) THEN [sum |-> 0, count |-> 0]
    ELSE LET window == windowInfos[k]
             shift == IF peakAlign THEN window.peakIndex - peakPositionInOutput ELSE 0
             sourceIndex == j - shift
             rest == SumAt_ShiftReversed(windowInfos, k + 1, j, peakAlign, peakPositionInOutput)
         IN IF sourceIndex >= 0 /\ sourceIndex < Len(window.data)
            THEN [sum |-> rest.sum + window.data[sourceIndex + 1], count |-> rest.count + 1]
            ELSE rest

\* the summation loops: the sum and the contributor count at output index j
\* when every window is read at index j - shift(window)
RECURSIVE SumAt(_, _, _, _, _)
SumAt(windowInfos, k, j, peakAlign, peakPositionInOutput) ==
    IF k > Len(windowInfos) THEN [sum |-> 0, count |-> 0]
    ELSE LET window == windowInfos[k]
             shift == IF peakAlign THEN peakPositionInOutput - window.peakIndex ELSE 0
             sourceIndex == j - shift
             rest == SumAt(windowInfos, k + 1, j, peakAlign, peakPositionInOutput)
         IN IF sourceIndex >= 0 /\ sourceIndex < Len(window.data)
            THEN [sum |-> rest.sum + window.data[sourceIndex + 1], count |-> rest.count + 1]
            ELSE rest

\* sampleCounts of the summation loop, as the program's local array
SampleCounts(windowInfos, outputWindowSize, peakAlign, peakPositionInOutput) ==
    [jj \in 1..outputWindowSize |->
        SumAt(windowInfos, 1, jj - 1, peakAlign, peakPositionInOutput).count]

NoWaveform == [waveform |-> Null, windowCount |-> 0, windows |-> <<>>, outputLengthMs |-> 0]

calculateSyncAveragedWaveform(p) ==
    IF Len(p.timestamps) = 0 THEN NoWaveform
    ELSE LET windowInfos == CollectWindows(p, 1)
         IN IF Len(windowInfos) = 0 THEN NoWaveform
            ELSE LET peakPositionInOutput == MsToSamples(p.peakPositionMs, p.sampleRate)
                     minEndOffset == MinEndOffset(windowInfos, 1)
                     outputWindowSize == peakPositionInOutput + minEndOffset + 1
                     outputLengthMs == F32Div(outputWindowSize * 1000, p.sampleRate)
                     summedWaveform ==
                        [jj \in 1..outputWindowSize |->
                            LET s == SumAt(windowInfos, 1, jj - 1, p.peakAlign, peakPositionInOutput)
                            IN IF s.count > 0 THEN F32Div(s.sum, s.count) ELSE 0]
                 IN [waveform |-> Some(summedWaveform),
                     windowCount |-> Len(windowInfos),
                     windows |-> windowInfos,
                     outputLengthMs |-> outputLengthMs]

\* seeded fault: the release samples overwrite the attack samples
calculateCombinedWaveform_Overwrite(attackWaveform, releaseWaveform, intervalMs, sampleRate) ==
    LET releaseStartOffset == findPeakIndex(attackWaveform, Null, Null)
                              + MsToSamples(intervalMs, sampleRate)
                              - findPeakIndex(releaseWaveform, Null, Null)
        combinedLength == Max(Len(attackWaveform), releaseStartOffset + Len(releaseWaveform))
    IN [kk \in 1..combinedLength |->
          LET i == (kk - 1) - releaseStartOffset
          IN IF i >= 0 /\ i < Len(releaseWaveform) THEN releaseWaveform[i + 1]
             ELSE IF kk <= Len(attackWaveform) THEN attackWaveform[kk] ELSE 0]

\* calculateCombinedWaveform: the output index kk - 1 receives attack[kk - 1]
\* from the copy loop and release[i] from the one i with
\* releaseStartOffset + i = kk - 1 in the add loop
calculateCombinedWaveform(attackWaveform, releaseWaveform, intervalMs, sampleRate) ==
    LET attackPeakIndex == findPeakIndex(attackWaveform, Null, Null)
        releasePeakIndex == findPeakIndex(releaseWaveform, Null, Null)
        intervalSamples == MsToSamples(intervalMs, sampleRate)
        releaseStartOffset == attackPeakIndex + intervalSamples - releasePeakIndex
        combinedLength == Max(Len(attackWaveform), releaseStartOffset + Len(releaseWaveform))
    IN [kk \in 1..combinedLength |->
          LET i == (kk - 1) - releaseStartOffset
          IN (IF kk <= Len(attackWaveform) THEN attackWaveform[kk] ELSE 0)
             + (IF i >= 0 /\ i < Len(releaseWaveform) THEN releaseWaveform[i + 1] ELSE 0)]

----------------------------------------------------------------------------
(* hooks/useAudioRecorder.ts and components/KeytapVisualizer.tsx: the two
   averaging channels *)

\* Array.prototype.slice(1, -1) and slice(0, 1)
SliceInner(s) == SubSeq(s, 2, Len(s) - 1)
SliceFirst(s) == SubSeq(s, 1, Min(1, Len(s)))

\* [...a, ...b].sort((x, y) => x - y)
SortedMerge(a, b) == SortSeq(a \o b, LAMBDA x, y : x < y)

\* seeded fault: only the first key-down is excluded from the attack anchors
AttackAnchors_KeepLast(keyDownTimestamps) == SubSeq(keyDownTimestamps, 2, Len(keyDownTimestamps))

\* trimmedDownTimestamps of both attack functions
AttackAnchors(keyDownTimestamps) == SliceInner(keyDownTimestamps)

\* seeded fault: with two key-ups it is the last one that is kept
ReleaseAnchors_KeepLast(keyUpTimestamps) ==
    IF Len(keyUpTimestamps) >= 3 THEN SliceInner(keyUpTimestamps)
    ELSE SubSeq(keyUpTimestamps, Len(keyUpTimestamps), Len(keyUpTimestamps))

\* trimmedUpTimestamps of both release functions
ReleaseAnchors(keyUpTimestamps) ==
    IF Len(keyUpTimestamps) >= 3 THEN SliceInner(keyUpTimestamps)
    ELSE SliceFirst(keyUpTimestamps)

\* seeded fault: two key-downs are enough for the attack channel
AttackRuns_FromTwo(keyDownTimestamps) == ~(Len(keyDownTimestamps) < 2)

\* the guards of the channels: averaging runs at all
AttackRuns(keyDownTimestamps) == ~(Len(keyDownTimestamps) < 3)
ReleaseRuns(keyUpTimestamps) == ~(Len(keyUpTimestamps) < 2)

\* the averaging call of the hook's calculateAveragedWaveform; Null when the
\* function returns before it
HookAttackResult(audioData, keyDownTimestamps, keyUpTimestamps, offsetMs, peakAlign, peakPosMs, sampleRate) ==
    IF ~AttackRuns(keyDownTimestamps) THEN Null
    ELSE LET trimmedDownTimestamps == AttackAnchors(keyDownTimestamps)
             trimmedUpTimestamps == SliceInner(keyUpTimestamps)
             endTimestamps == calculateWindowEndTimestamps(trimmedDownTimestamps, trimmedUpTimestamps)
         IN Some(calculateSyncAveragedWaveform(
                   [audioData |-> audioData, timestamps |-> trimmedDownTimestamps,
                    endTimestamps |-> endTimestamps, offsetMs |-> offsetMs,
                    peakAlign |-> peakAlign, peakPositionMs |-> peakPosMs,
                    sampleRate |-> sampleRate]))

\* the hook's calculateAveragedWaveform on the React state st: the state it
\* leaves (a set* call replaces the field)
calculateAveragedWaveform(st, audioData, keyDownTimestamps, keyUpTimestamps, offsetMs, peakAlign, peakPosMs, sampleRate) ==
    LET r == HookAttackResult(audioData, keyDownTimestamps, keyUpTimestamps,
                              offsetMs, peakAlign, peakPosMs, sampleRate)
    IN IF IsNull(r) THEN [st EXCEPT !.status = "completed"]
       ELSE IF ~IsNull(Val(r).waveform)
            THEN [st EXCEPT !.averagedWaveform = Val(r).waveform,
                            !.windowOffsetMs = offsetMs,
                            !.peakAlignEnabled = peakAlign,
                            !.status = "completed"]
            ELSE [st EXCEPT !.status = "completed"]

\* the averaging call of the hook's calculateReleaseWaveform
HookReleaseResult(audioData, keyUpTimestamps, keyDownTimestamps, offsetMs, peakAlign, peakPosMs, sampleRate) ==
    IF ~ReleaseRuns(keyUpTimestamps) THEN Null
    ELSE LET trimmedUpTimestamps == ReleaseAnchors(keyUpTimestamps)
             allTimestamps == SortedMerge(keyDownTimestamps, keyUpTimestamps)
             endTimestamps == calculateWindowEndTimestamps(trimmedUpTimestamps, allTimestamps)
         IN Some(calculateSyncAveragedWaveform(
                   [audioData |-> audioData, timestamps |-> trimmedUpTimestamps,
                    endTimestamps |-> endTimestamps, offsetMs |-> offsetMs,
                    peakAlign |-> peakAlign, peakPositionMs |-> peakPosMs,
                    sampleRate |-> sampleRate]))

calculateReleaseWaveform(st, audioData, keyUpTimestamps, keyDownTimestamps, offsetMs, peakAlign, peakPosMs, sampleRate) ==
    LET r == HookReleaseResult(audioData, keyUpTimestamps, keyDownTimestamps,
                               offsetMs, peakAlign, peakPosMs, sampleRate)
    IN IF IsNull(r) THEN st
       ELSE IF ~IsNull(Val(r).waveform)
            THEN [st EXCEPT !.releaseWaveform = Val(r).waveform,
                            !.releaseOffsetMs = offsetMs]
            ELSE st

\* recalculateAveragedWaveform(offsetMs, peakAlign) on the refs it reads and
\* the peakPositionMs of its closure: the state it leaves
recalculateAveragedWaveform(st, audioData, keyDownTimestamps, keyUpTimestamps, offsetMs, peakAlign, peakPosMs, sampleRate) ==
    IF IsNull(audioData) \/ Len(keyDownTimestamps) = 0 THEN st
    ELSE calculateAveragedWaveform(st, Val(audioData), keyDownTimestamps, keyUpTimestamps,
                                   offsetMs, peakAlign, peakPosMs, sampleRate)

\* recalculateReleaseWaveform(offsetMs, peakAlign)
recalculateReleaseWaveform(st, audioData, keyUpTimestamps, keyDownTimestamps, offsetMs, peakAlign, peakPosMs, sampleRate) ==
    IF IsNull(audioData) \/ Len(keyUpTimestamps) = 0 THEN st
    ELSE calculateReleaseWaveform(st, Val(audioData), keyUpTimestamps, keyDownTimestamps,
                                  offsetMs, peakAlign, peakPosMs, sampleRate)

\* KeytapVisualizer's calculateMeasurementAttackWaveform: { waveform, windows }
calculateMeasurementAttackWaveform(audioData, keyDownTimestamps, keyUpTimestamps, offsetMs, peakAlign, peakPosMs, targetSampleRate) ==
    IF ~AttackRuns(keyDownTimestamps) THEN [waveform |-> Null, windows |-> <<>>]
    ELSE LET trimmedDownTimestamps == AttackAnchors(keyDownTimestamps)
             endTimestamps == calculateWindowEndTimestamps(trimmedDownTimestamps, keyUpTimestamps)
             result == calculateSyncAveragedWaveform(
                   [audioData |-> audioData, timestamps |-> trimmedDownTimestamps,
                    endTimestamps |-> endTimestamps, offsetMs |-> offsetMs,
                    peakAlign |-> peakAlign, peakPositionMs |-> peakPosMs,
                    sampleRate |-> targetSampleRate])
         IN [waveform |-> result.waveform, windows |-> result.windows]

\* KeytapVisualizer's calculateMeasurementReleaseWaveform: { waveform, windows }
calculateMeasurementReleaseWaveform(audioData, keyUpTimestamps, keyDownTimestamps, offsetMs, peakAlign, peakPosMs, targetSampleRate) ==
    IF ~ReleaseRuns(keyUpTimestamps) THEN [waveform |-> Null, windows |-> <<>>]
    ELSE LET trimmedUpTimestamps == ReleaseAnchors(keyUpTimestamps)
             endTimestamps == calculateWindowEndTimestamps(
                                 trimmedUpTimestamps,
                                 SortedMerge(keyDownTimestamps, keyUpTimestamps))
             result == calculateSyncAveragedWaveform(
                   [audioData |-> audioData, timestamps |-> trimmedUpTimestamps,
                    endTimestamps |-> endTimestamps, offsetMs |-> offsetMs,
                    peakAlign |-> peakAlign, peakPositionMs |-> peakPosMs,
                    sampleRate |-> targetSampleRate])
         IN [waveform |-> result.waveform, windows |-> result.windows]

\* the useState defaults of the hook
DEFAULT_WINDOW_OFFSET_MS == 5
DEFAULT_RELEASE_OFFSET_MS == 30
DEFAULT_PEAK_INTERVAL_MS == 12
DEFAULT_PEAK_POSITION_MS == 10

\* the React state of useAudioRecorder on mount (the display strings
\* statusMessage and recordingProgress, and recordingData, which only the
\* display reads, are left out)
InitialState ==
    [status |-> "idle", isRecording |-> FALSE, canRecord |-> FALSE,
     keyTapCount |-> 0, keyUpCount |-> 0,
     averagedWaveform |-> Null, releaseWaveform |-> Null, combinedWaveform |-> Null,
     windowOffsetMs |-> DEFAULT_WINDOW_OFFSET_MS,
     releaseOffsetMs |-> DEFAULT_RELEASE_OFFSET_MS,
     peakIntervalMs |-> DEFAULT_PEAK_INTERVAL_MS,
     peakAlignEnabled |-> FALSE,
     peakPositionMs |-> DEFAULT_PEAK_POSITION_MS]

\* the set* calls at the top of startRecording
StartedState(st) ==
    [st EXCEPT !.isRecording = TRUE, !.status = "recording",
               !.keyTapCount = 0, !.keyUpCount = 0,
               !.averagedWaveform = Null, !.releaseWaveform = Null]

----------------------------------------------------------------------------
(* hooks/useAudioRecorder.ts: the recorder as a state machine.

   React.  state holds the value each useState cell has after the set* calls
   made so far; rendered is state as of the last committed render, which is
   what the closures of that render read (isRecording in startRecording
   and in the key listeners).  A handler of a discrete DOM event (click,
   keydown, keyup) is followed by a synchronous render, so its action
   commits; set* calls made from a timer, an audio callback or a promise
   continuation wait for the action Render.  The combined-waveform effect
   runs with the commit whose dependencies changed.

   Clock.  clock is AudioContext.currentTime in ms; it stands still
   while the context is suspended. *)

\* audioContextRef.sampleRate of the one AudioContext the hook creates
ContextSampleRate == 500

\* the ScriptProcessor block length in samples, on the model's scale
BufferSize == 2

\* seconds of checkpoints the table keeps
MapRetainSeconds == 30

MaxSessions == 2
MaxBlocks == 2
MaxKeys == 3
MaxClock == 8

\* what the audio clock can advance by between two events, and how far
\* ahead of the clock a first block's playbackTime lies
ClockSteps == {0, 3}
PlaybackLeads == {0, 4}
PlaybackDrifts == {0, 1}

\* the samples of a delivered block
BlockData == [k \in 1..BufferSize |-> IF k = 1 THEN 2 ELSE -1]

\* a quotient of doubles, on the 1 ms grid
MsDiv(a, b) == a \div b

\* Math.ceil(a / b)
CeilDiv(a, b) == (a + b - 1) \div b

\* bufferSize / realSampleRate, in ms
BufferDurationMs == MsDiv(BufferSize * 1000, ContextSampleRate)

\* seeded fault: the search loop never breaks, so nextEntry ends as the LAST
\* entry at or after the query
RECURSIVE MapScan_NoBreak(_, _, _, _, _)
MapScan_NoBreak(map, audioTime, i, prevEntry, nextEntry) ==
    IF i >= Len(map) THEN <<prevEntry, nextEntry>>
    ELSE LET prev2 == IF map[i + 1].playbackTime <= audioTime THEN i ELSE prevEntry
             next2 == IF map[i + 1].playbackTime >= audioTime THEN i ELSE nextEntry
         IN MapScan_NoBreak(map, audioTime, i + 1, prev2, next2)

\* the search loop of audioTimeToSampleBasedMs from index i: the indices of
\* prevEntry and nextEntry when the loop ends
RECURSIVE MapScan(_, _, _, _, _)
MapScan(map, audioTime, i, prevEntry, nextEntry) ==
    IF i >= Len(map) THEN <<prevEntry, nextEntry>>
    ELSE LET prev2 == IF map[i + 1].playbackTime <= audioTime THEN i ELSE prevEntry
         IN IF /\ map[i + 1].playbackTime >= audioTime
               /\ (map[nextEntry + 1].playbackTime > audioTime \/ i = Len(map) - 1)
            THEN <<prev2, i>>
            ELSE MapScan(map, audioTime, i + 1, prev2, nextEntry)

\* seeded fault: the extrapolation from a single checkpoint runs backwards
audioTimeToSampleBasedMs_Backwards(map, startTime, audioTime) ==
    IF Len(map) = 0 THEN audioTime - startTime
    ELSE LET found == MapScan(map, audioTime, 0, 0, Len(map) - 1)
             prevEntry == map[found[1] + 1]
             nextEntry == map[found[2] + 1]
         IN IF found[1] = found[2] \/ prevEntry.playbackTime = nextEntry.playbackTime
            THEN MsDiv(prevEntry.samples * 1000
                         - (audioTime - prevEntry.playbackTime) * ContextSampleRate,
                       ContextSampleRate)
            ELSE MsDiv((prevEntry.samples * (nextEntry.playbackTime - prevEntry.playbackTime)
                          + (nextEntry.samples - prevEntry.samples)
                              * (audioTime - prevEntry.playbackTime)) * 1000,
                       (nextEntry.playbackTime - prevEntry.playbackTime) * ContextSampleRate)

\* audioTimeToSampleBasedMs(audioTime) on the refs it reads
audioTimeToSampleBasedMs(map, startTime, audioTime) ==
    IF Len(map) = 0 THEN audioTime - startTime
    ELSE LET found == MapScan(map, audioTime, 0, 0, Len(map) - 1)
             prevEntry == map[found[1] + 1]
             nextEntry == map[found[2] + 1]
         IN IF found[1] = found[2] \/ prevEntry.playbackTime = nextEntry.playbackTime
            THEN MsDiv(prevEntry.samples * 1000
                         + (audioTime - prevEntry.playbackTime) * ContextSampleRate,
                       ContextSampleRate)
            ELSE MsDiv((prevEntry.samples * (nextEntry.playbackTime - prevEntry.playbackTime)
                          + (nextEntry.samples - prevEntry.samples)
                              * (audioTime - prevEntry.playbackTime)) * 1000,
                       (nextEntry.playbackTime - prevEntry.playbackTime) * ContextSampleRate)

\* seeded fault: the oldest entry is evicted as soon as the table is full
PushCheckpointAt_EvictWhenFull(map, samples, playbackTime, sampleRate, bufferSize) ==
    LET pushed == Append(map, [samples |-> samples, playbackTime |-> playbackTime])
        maxEntries == CeilDiv(MapRetainSeconds * sampleRate, bufferSize)
    IN IF Len(pushed) >= maxEntries THEN Tail(pushed) ELSE pushed

\* the checkpoint push of onaudioprocess, with the shift that bounds the
\* table, for a context of the given sample rate and a block length
PushCheckpointAt(map, samples, playbackTime, sampleRate, bufferSize) ==
    LET pushed == Append(map, [samples |-> samples, playbackTime |-> playbackTime])
        maxEntries == CeilDiv(MapRetainSeconds * sampleRate, bufferSize)
    IN IF Len(pushed) > maxEntries THEN Tail(pushed) ELSE pushed

\* the push in the recorder's context
PushCheckpoint(map, samples, playbackTime) ==
    PushCheckpointAt(map, samples, playbackTime, ContextSampleRate, BufferSize)

\* the drain loops of the first block: every queued clock reading becomes
\* (audioTime - audioContextStartTimeRef) * 1000
Drained(pending, inputStartTime) == [k \in 1..Len(pending) |-> pending[k] - inputStartTime]

\* calculateCombinedWaveformLocal under the guard of its callers
CombinedOf(s) ==
    IF ~IsNull(s.averagedWaveform) /\ ~IsNull(s.releaseWaveform)
    THEN Some(calculateCombinedWaveform(Val(s.averagedWaveform), Val(s.releaseWaveform),
                                        s.peakIntervalMs, ContextSampleRate))
    ELSE Null

\* seeded fault: the effect never clears the combined waveform
Effects_NeverClears(s, r) ==
    IF /\ <<s.averagedWaveform, s.releaseWaveform, s.peakIntervalMs>>
            # <<r.averagedWaveform, r.releaseWaveform, r.peakIntervalMs>>
       /\ ~IsNull(CombinedOf(s))
    THEN [s EXCEPT !.combinedWaveform = CombinedOf(s)]
    ELSE s

\* the combined-waveform effect of the render of s after the render of r
Effects(s, r) ==
    IF <<s.averagedWaveform, s.releaseWaveform, s.peakIntervalMs>>
         # <<r.averagedWaveform, r.releaseWaveform, r.peakIntervalMs>>
    THEN [s EXCEPT !.combinedWaveform = CombinedOf(s)]
    ELSE s

\* what the stopRecording closure captures
EnvOf(s) ==
    [windowOffsetMs |-> s.windowOffsetMs, releaseOffsetMs |-> s.releaseOffsetMs,
     peakPositionMs |-> s.peakPositionMs]

\* the state and refs of the KeytapVisualizer component that uses the hook
visualizerVars == <<measurementHistory, nextMeasurementId, recordingSessionRef,
                    lastProcessedSessionRef, imports>>

\* KeytapVisualizer on mount
VisualizerInit ==
    /\ measurementHistory = <<>>
    /\ nextMeasurementId = 1
    /\ recordingSessionRef = 0
    /\ lastProcessedSessionRef = 0
    /\ imports = <<>>

hookVars == <<state, rendered, stopEnv, mediaStreamRef, audioContextRef, firstChunkReceivedRef,
              pendingKeyDownTimestampsRef, pendingKeyUpTimestampsRef, keyTimestampsRef,
              keyUpTimestampsRef, sampleTimeMapRef, audioContextStartTimeRef,
              finalRecordingDataRef, runs, clock, firedDown, firedUp,
              firstInputStart>>

\* the hook on mount, before initializeAudio
HookInit ==
    /\ state = InitialState
    /\ rendered = InitialState
    /\ stopEnv = EnvOf(InitialState)
    /\ mediaStreamRef = FALSE
    /\ audioContextRef = Null
    /\ firstChunkReceivedRef = FALSE
    /\ pendingKeyDownTimestampsRef = <<>>
    /\ pendingKeyUpTimestampsRef = <<>>
    /\ keyTimestampsRef = <<>>
    /\ keyUpTimestampsRef = <<>>
    /\ sampleTimeMapRef = <<>>
    /\ audioContextStartTimeRef = 0
    /\ finalRecordingDataRef = Null
    /\ runs = <<>>
    /\ clock = 0
    /\ firedDown = <<>>
    /\ firedUp = <<>>
    /\ firstInputStart = Null

NoCall == [fn |-> "none", args |-> Null, done |-> TRUE, ret |-> Null]

Init ==
    /\ call = NoCall
    /\ HookInit
    /\ VisualizerInit

\* a synchronous render after the set* calls that leave the state s
Commit(s) ==
    LET t == Effects(s, rendered)
    IN /\ state' = t
       /\ rendered' = t
       /\ stopEnv' = IF t.isRecording # rendered.isRecording THEN EnvOf(t) ELSE stopEnv

\* set* calls whose render is still to come
Schedule(s) ==
    /\ state' = s
    /\ UNCHANGED <<rendered, stopEnv>>

\* the scheduled render
Render ==
    /\ state # rendered
    /\ Commit(state)
    /\ UNCHANGED <<call, mediaStreamRef, audioContextRef, firstChunkReceivedRef,
                   pendingKeyDownTimestampsRef, pendingKeyUpTimestampsRef, keyTimestampsRef,
                   keyUpTimestampsRef, sampleTimeMapRef, audioContextStartTimeRef,
                   finalRecordingDataRef, runs, clock, firedDown, firedUp,
                   firstInputStart>>
    /\ UNCHANGED visualizerVars

\* initializeAudio: getUserMedia resolves or rejects
InitializeAudio ==
    /\ ~mediaStreamRef
    /\ \E granted \in BOOLEAN :
          IF granted
          THEN /\ mediaStreamRef' = TRUE
               /\ Schedule([state EXCEPT !.canRecord = TRUE])
          ELSE /\ mediaStreamRef' = FALSE
               /\ Schedule([state EXCEPT !.status = "error", !.canRecord = FALSE])
    /\ UNCHANGED <<call, audioContextRef, firstChunkReceivedRef,
                   pendingKeyDownTimestampsRef, pendingKeyUpTimestampsRef, keyTimestampsRef,
                   keyUpTimestampsRef, sampleTimeMapRef, audioContextStartTimeRef,
                   finalRecordingDataRef, runs, clock, firedDown, firedUp,
                   firstInputStart>>
    /\ UNCHANGED visualizerVars

\* seeded fault: the call without a media stream goes on to the state reset
StartRecordingNoStream_Starts ==
    /\ ~mediaStreamRef
    /\ state.status # "error"
    /\ Commit([StartedState(state) EXCEPT !.status = "error"])
    /\ UNCHANGED <<call, mediaStreamRef, audioContextRef, firstChunkReceivedRef,
                   pendingKeyDownTimestampsRef, pendingKeyUpTimestampsRef, keyTimestampsRef,
                   keyUpTimestampsRef, sampleTimeMapRef, audioContextStartTimeRef,
                   finalRecordingDataRef, runs, clock, firedDown, firedUp,
                   firstInputStart>>
    /\ UNCHANGED visualizerVars

\* startRecording without a media stream
StartRecordingNoStream ==
    /\ ~mediaStreamRef
    /\ state.status # "error"
    /\ Commit([state EXCEPT !.status = "error"])
    /\ UNCHANGED <<call, mediaStreamRef, audioContextRef, firstChunkReceivedRef,
                   pendingKeyDownTimestampsRef, pendingKeyUpTimestampsRef, keyTimestampsRef,
                   keyUpTimestampsRef, sampleTimeMapRef, audioContextStartTimeRef,
                   finalRecordingDataRef, runs, clock, firedDown, firedUp,
                   firstInputStart>>
    /\ UNCHANGED visualizerVars

\* a call of startRecording that got past its guards: the closure state of
\* the call (recordingChunks, totalSamplesRecorded, the stopRecording it
\* will call) and the playbackTime of its last block
NewRun(phase) ==
    [phase |-> phase, recordingChunks |-> <<>>, totalSamplesRecorded |-> 0,
     env |-> stopEnv, lastPlaybackTime |-> 0]

\* startRecording from the creation of the input source to the timer: the
\* part after "await audioContextRef.resume()"
ConnectGraph ==
    /\ firstChunkReceivedRef' = FALSE
    /\ pendingKeyDownTimestampsRef' = <<>>
    /\ pendingKeyUpTimestampsRef' = <<>>
    /\ sampleTimeMapRef' = <<>>
    /\ audioContextStartTimeRef' = clock

\* startRecording past its two guards, up to "await audioContextRef.resume()",
\* and to its end when the context is running
BeginSession ==
    /\ Len(runs) < MaxSessions
    /\ Commit(StartedState(state))
    /\ keyTimestampsRef' = <<>>
    /\ keyUpTimestampsRef' = <<>>
    /\ firedDown' = <<>>
    /\ firedUp' = <<>>
    /\ firstInputStart' = Null
    /\ \E created \in {"suspended", "running"} :
          audioContextRef' = IF IsNull(audioContextRef) THEN Some(created) ELSE audioContextRef
    /\ IF Val(audioContextRef') = "suspended"
       THEN /\ runs' = Append(runs, NewRun("awaiting"))
            /\ UNCHANGED <<firstChunkReceivedRef, pendingKeyDownTimestampsRef,
                           pendingKeyUpTimestampsRef, sampleTimeMapRef, audioContextStartTimeRef>>
       ELSE /\ runs' = Append(runs, NewRun("capturing"))
            /\ ConnectGraph
    /\ UNCHANGED <<call, mediaStreamRef, finalRecordingDataRef, clock>>

\* startRecording through the function of the current render: its isRecording
\* is the rendered one
StartRecording ==
    /\ mediaStreamRef
    /\ ~rendered.isRecording
    /\ BeginSession
    /\ UNCHANGED visualizerVars

\* the user agent suspends the idle context between two sessions: the state
\* the next startRecording tests before it awaits resume()
ContextSuspended ==
    /\ audioContextRef = Some("running")
    /\ ~state.isRecording
    /\ ~rendered.isRecording
    /\ \A r \in 1..Len(runs) : runs[r].phase = "stopped"
    /\ audioContextRef' = Some("suspended")
    /\ UNCHANGED <<call, state, rendered, stopEnv, mediaStreamRef, firstChunkReceivedRef,
                   pendingKeyDownTimestampsRef, pendingKeyUpTimestampsRef, keyTimestampsRef,
                   keyUpTimestampsRef, sampleTimeMapRef, audioContextStartTimeRef,
                   finalRecordingDataRef, runs, clock, firedDown, firedUp,
                   firstInputStart>>
    /\ UNCHANGED visualizerVars

\* the promise of audioContextRef.resume() resolves and startRecording runs on
ResumeResolved(r) ==
    /\ runs[r].phase = "awaiting"
    /\ audioContextRef' = Some("running")
    /\ runs' = [runs EXCEPT ![r].phase = "capturing"]
    /\ ConnectGraph
    /\ UNCHANGED <<call, state, rendered, stopEnv, mediaStreamRef, keyTimestampsRef,
                   keyUpTimestampsRef, finalRecordingDataRef, clock, firedDown,
                   firedUp, firstInputStart>>
    /\ UNCHANGED visualizerVars

\* the audio clock after d ms more of a running context
Advance(d) ==
    /\ clock + d <= MaxClock
    /\ clock' = IF audioContextRef = Some("running") THEN clock + d ELSE clock

\* onaudioprocess of the run r, for a block with the given playbackTime
AudioProcess(r, d, playbackTime) ==
    /\ runs[r].phase = "capturing"
    /\ runs[r].totalSamplesRecorded < MaxBlocks * BufferSize
    /\ Advance(d)
    /\ LET inputStartTime == playbackTime - BufferDurationMs
       IN /\ IF ~firstChunkReceivedRef
             THEN /\ audioContextStartTimeRef' = inputStartTime
                  /\ keyTimestampsRef' = keyTimestampsRef \o Drained(pendingKeyDownTimestampsRef, inputStartTime)
                  /\ keyUpTimestampsRef' = keyUpTimestampsRef \o Drained(pendingKeyUpTimestampsRef, inputStartTime)
                  /\ Schedule([state EXCEPT !.keyTapCount = Len(keyTimestampsRef'),
                                         !.keyUpCount = Len(keyUpTimestampsRef')])
                  /\ pendingKeyDownTimestampsRef' = <<>>
                  /\ pendingKeyUpTimestampsRef' = <<>>
                  /\ firstChunkReceivedRef' = TRUE
             ELSE UNCHANGED <<audioContextStartTimeRef, keyTimestampsRef, keyUpTimestampsRef,
                              state, rendered, stopEnv, pendingKeyDownTimestampsRef,
                              pendingKeyUpTimestampsRef, firstChunkReceivedRef>>
          /\ firstInputStart' = IF r = Len(runs) /\ IsNull(firstInputStart)
                                THEN Some(inputStartTime) ELSE firstInputStart
    /\ sampleTimeMapRef' = PushCheckpoint(sampleTimeMapRef,
                                       runs[r].totalSamplesRecorded + BufferSize, playbackTime)
    /\ runs' = [runs EXCEPT ![r].recordingChunks = Append(@, BlockData),
                            ![r].totalSamplesRecorded = @ + BufferSize,
                            ![r].lastPlaybackTime = playbackTime]
    /\ UNCHANGED <<call, mediaStreamRef, audioContextRef, finalRecordingDataRef, firedDown, firedUp>>

\* the blocks the audio thread delivers to the run r: the first one plays
\* at or after the clock, each later one a block length after the one before
DeliverBlock(r) ==
    /\ \E d \in ClockSteps :
          IF runs[r].totalSamplesRecorded = 0
          THEN \E lead \in PlaybackLeads :
                  AudioProcess(r, d, clock + d + lead)
          ELSE \E drift \in PlaybackDrifts :
                  AudioProcess(r, d, runs[r].lastPlaybackTime + BufferDurationMs + drift)
    /\ UNCHANGED visualizerVars

\* the keys of the session so far
KeysSoFar ==
    Len(pendingKeyDownTimestampsRef) + Len(pendingKeyUpTimestampsRef)
      + Len(keyTimestampsRef) + Len(keyUpTimestampsRef)

\* a second call of startRecording through the same function, made before
\* the render of the first call's setIsRecording(true): the isRecording of
\* its closure is still false, and nothing has happened since the first call
StartRecordingAgain ==
    /\ mediaStreamRef
    /\ runs # <<>>
    /\ runs[Len(runs)].phase # "stopped"
    /\ runs[Len(runs)].totalSamplesRecorded = 0
    /\ state.isRecording
    /\ KeysSoFar = 0
    /\ BeginSession
    /\ UNCHANGED visualizerVars

\* handleKeyDown
KeyDown(d) ==
    /\ rendered.isRecording
    /\ ~IsNull(audioContextRef)
    /\ KeysSoFar < MaxKeys
    /\ Advance(d)
    /\ IF ~firstChunkReceivedRef
       THEN /\ pendingKeyDownTimestampsRef' = Append(pendingKeyDownTimestampsRef, clock')
            /\ UNCHANGED <<keyTimestampsRef, state, rendered, stopEnv>>
       ELSE /\ keyTimestampsRef' = Append(keyTimestampsRef,
                  audioTimeToSampleBasedMs(sampleTimeMapRef, audioContextStartTimeRef, clock'))
            /\ Commit([state EXCEPT !.keyTapCount = Len(keyTimestampsRef')])
            /\ UNCHANGED pendingKeyDownTimestampsRef
    /\ firedDown' = IF IsNull(firstInputStart) THEN Append(firedDown, clock') ELSE firedDown
    /\ UNCHANGED <<call, mediaStreamRef, audioContextRef, firstChunkReceivedRef,
                   pendingKeyUpTimestampsRef, keyUpTimestampsRef, sampleTimeMapRef,
                   audioContextStartTimeRef, finalRecordingDataRef, runs, firedUp,
                   firstInputStart>>
    /\ UNCHANGED visualizerVars

\* handleKeyUp
KeyUp(d) ==
    /\ rendered.isRecording
    /\ ~IsNull(audioContextRef)
    /\ KeysSoFar < MaxKeys
    /\ Advance(d)
    /\ IF ~firstChunkReceivedRef
       THEN /\ pendingKeyUpTimestampsRef' = Append(pendingKeyUpTimestampsRef, clock')
            /\ UNCHANGED <<keyUpTimestampsRef, state, rendered, stopEnv>>
       ELSE /\ keyUpTimestampsRef' = Append(keyUpTimestampsRef,
                  audioTimeToSampleBasedMs(sampleTimeMapRef, audioContextStartTimeRef, clock'))
            /\ Commit([state EXCEPT !.keyUpCount = Len(keyUpTimestampsRef')])
            /\ UNCHANGED pendingKeyUpTimestampsRef
    /\ firedUp' = IF IsNull(firstInputStart) THEN Append(firedUp, clock') ELSE firedUp
    /\ UNCHANGED <<call, mediaStreamRef, audioContextRef, firstChunkReceivedRef,
                   pendingKeyDownTimestampsRef, keyTimestampsRef, sampleTimeMapRef,
                   audioContextStartTimeRef, finalRecordingDataRef, runs, firedDown,
                   firstInputStart>>
    /\ UNCHANGED visualizerVars

\* combinedData of stopRecording
CombineChunks(recordingChunks) ==
    [k \in 1..(Len(recordingChunks) * BufferSize) |->
        recordingChunks[((k - 1) \div BufferSize) + 1][((k - 1) % BufferSize) + 1]]

\* seeded fault: stopRecording returns on an empty recording before it has
\* cleared isRecording
StopRecording_EmptyKeepsRecording(r) ==
    /\ runs[r].phase = "capturing"
    /\ runs' = [runs EXCEPT ![r].phase = "stopped"]
    /\ LET stopped == [state EXCEPT !.isRecording = FALSE]
           combinedData == CombineChunks(runs[r].recordingChunks)
           env == runs[r].env
       IN IF Len(runs[r].recordingChunks) = 0
          THEN /\ Schedule(state)
               /\ UNCHANGED finalRecordingDataRef
          ELSE /\ finalRecordingDataRef' = Some(combinedData)
               /\ Schedule(
                    calculateReleaseWaveform(
                      calculateAveragedWaveform(stopped, combinedData, keyTimestampsRef,
                          keyUpTimestampsRef, env.windowOffsetMs, TRUE, env.peakPositionMs,
                          ContextSampleRate),
                      combinedData, keyUpTimestampsRef, keyTimestampsRef,
                      env.releaseOffsetMs, TRUE, env.peakPositionMs, ContextSampleRate))
    /\ UNCHANGED <<call, mediaStreamRef, audioContextRef, firstChunkReceivedRef,
                   pendingKeyDownTimestampsRef, pendingKeyUpTimestampsRef, keyTimestampsRef,
                   keyUpTimestampsRef, sampleTimeMapRef, audioContextStartTimeRef,
                   clock, firedDown, firedUp, firstInputStart>>
    /\ UNCHANGED visualizerVars

\* the recording timer of the run r fires: stopRecording
StopRecording(r) ==
    /\ runs[r].phase = "capturing"
    /\ runs' = [runs EXCEPT ![r].phase = "stopped"]
    /\ LET stopped == [state EXCEPT !.isRecording = FALSE]
           combinedData == CombineChunks(runs[r].recordingChunks)
           env == runs[r].env
       IN IF Len(runs[r].recordingChunks) = 0
          THEN /\ Schedule([stopped EXCEPT !.status = "error"])
               /\ UNCHANGED finalRecordingDataRef
          ELSE /\ finalRecordingDataRef' = Some(combinedData)
               /\ Schedule(
                    calculateReleaseWaveform(
                      calculateAveragedWaveform(stopped, combinedData, keyTimestampsRef,
                          keyUpTimestampsRef, env.windowOffsetMs, TRUE, env.peakPositionMs,
                          ContextSampleRate),
                      combinedData, keyUpTimestampsRef, keyTimestampsRef,
                      env.releaseOffsetMs, TRUE, env.peakPositionMs, ContextSampleRate))
    /\ UNCHANGED <<call, mediaStreamRef, audioContextRef, firstChunkReceivedRef,
                   pendingKeyDownTimestampsRef, pendingKeyUpTimestampsRef, keyTimestampsRef,
                   keyUpTimestampsRef, sampleTimeMapRef, audioContextStartTimeRef,
                   clock, firedDown, firedUp, firstInputStart>>
    /\ UNCHANGED visualizerVars

Next ==
    \/ InitializeAudio
    \/ StartRecordingNoStream
    \/ StartRecording
    \/ ContextSuspended
    \/ \E r \in 1..Len(runs) : ResumeResolved(r)
    \/ \E r \in 1..Len(runs) : DeliverBlock(r)
    \/ \E d \in ClockSteps : KeyDown(d)
    \/ \E d \in ClockSteps : KeyUp(d)
    \/ \E r \in 1..Len(runs) : StopRecording(r)
    \/ Render

Spec == Init /\ [][Next]_vars

\* what the browser guarantees: the promise of resume() settles, the recording
\* timer of a call that set one fires, and a scheduled render is carried out.
\* The timer's step is the step of Next that takes the call r from capturing
\* to stopped, which only StopRecording(r) does.
ResumeSettles(r) == r <= Len(runs) /\ ResumeResolved(r)
TimerFires(r) ==
    /\ r <= Len(runs)
    /\ runs[r].phase = "capturing"
    /\ runs' = [runs EXCEPT ![r].phase = "stopped"]

SpecLive ==
    /\ Spec
    /\ WF_vars(Render)
    /\ \A r \in 1..MaxSessions : WF_vars(ResumeSettles(r)) /\ WF_runs(TimerFires(r))

\* the hook under a caller that calls startRecording twice in a row, followed
\* up to the second call: the behaviours end where two calls are under way
NextDoubleStart ==
    \/ /\ \A r \in 1..(Len(runs) - 1) : runs[r].phase = "stopped"
       /\ Next
    \/ StartRecordingAgain

SpecDoubleStart == Init /\ [][NextDoubleStart]_vars

----------------------------------------------------------------------------
(* Bounded inputs of the pure functions *)

MaxAudioLen == 4
MaxAnchors == 2

SampleValues == {-1, 0, 2}
SampleRates == {500}
TimestampValues == {0, 2, 5}
EndValues == {3, 9}
OffsetValues == {0, 3}
PeakPositionValues == {1, 4}

SeqsUpTo(S, n) == UNION {[1..k -> S] : k \in 0..n}

\* the recordings: empty, or of full length
AudioBuffers == {<<>>} \cup [1..MaxAudioLen -> SampleValues]

\* the end list of a call: one end per anchor, or none at all (every anchor
\* then takes the fallback end)
EndLists(n) == [1..n -> EndValues] \cup {<<>>}

SyncParams ==
    {[audioData |-> a, timestamps |-> te[1], endTimestamps |-> te[2], offsetMs |-> o,
      peakAlign |-> pa, peakPositionMs |-> pp, sampleRate |-> sr] :
        a \in AudioBuffers,
        te \in UNION {{<<t, e>> : e \in EndLists(Len(t))} : t \in SeqsUpTo(TimestampValues, MaxAnchors)},
        o \in OffsetValues, pa \in BOOLEAN, pp \in PeakPositionValues,
        sr \in SampleRates}

InitSync ==
    /\ HookInit
    /\ VisualizerInit
    /\ \E p \in SyncParams :
           call = [fn |-> "calculateSyncAveragedWaveform", args |-> p, done |-> FALSE, ret |-> Null]

ApplySync ==
    /\ call.fn = "calculateSyncAveragedWaveform"
    /\ ~call.done
    /\ call' = [call EXCEPT !.done = TRUE, !.ret = calculateSyncAveragedWaveform(call.args)]
    /\ UNCHANGED <<hookVars, visualizerVars>>

SpecSync == InitSync /\ [][ApplySync]_vars

MaxAlternates == 3
EventTimes == {1, 2, 3, 4}

InitEnds ==
    /\ HookInit
    /\ VisualizerInit
    /\ \E t \in SeqsUpTo(EventTimes, MaxAnchors), alt \in SeqsUpTo(EventTimes, MaxAlternates) :
           call = [fn |-> "calculateWindowEndTimestamps",
                   args |-> [timestamps |-> t, alternateTimestamps |-> alt],
                   done |-> FALSE, ret |-> Null]

ApplyEnds ==
    /\ call.fn = "calculateWindowEndTimestamps"
    /\ ~call.done
    /\ call' = [call EXCEPT !.done = TRUE, !.ret =
                  calculateWindowEndTimestamps(call.args.timestamps, call.args.alternateTimestamps)]
    /\ UNCHANGED <<hookVars, visualizerVars>>

SpecEnds == InitEnds /\ [][ApplyEnds]_vars

MaxWaveLen == 3
IntervalValues == {0, 3, 4, 7}

InitCombine ==
    /\ HookInit
    /\ VisualizerInit
    /\ \E a \in SeqsUpTo(SampleValues, MaxWaveLen), r \in SeqsUpTo(SampleValues, MaxWaveLen),
          iv \in IntervalValues, sr \in SampleRates :
           call = [fn |-> "calculateCombinedWaveform",
                   args |-> [attackWaveform |-> a, releaseWaveform |-> r,
                             intervalMs |-> iv, sampleRate |-> sr],
                   done |-> FALSE, ret |-> Null]

ApplyCombine ==
    /\ call.fn = "calculateCombinedWaveform"
    /\ ~call.done
    /\ call' = [call EXCEPT !.done = TRUE, !.ret =
                  calculateCombinedWaveform(call.args.attackWaveform, call.args.releaseWaveform,
                                            call.args.intervalMs, call.args.sampleRate)]
    /\ UNCHANGED <<hookVars, visualizerVars>>

SpecCombine == InitCombine /\ [][ApplyCombine]_vars

\* the channels: one finished recording with its two timestamp lists, given
\* to each of the four channel functions
MaxDown == 4
MaxUp == 3
ChannelRecording == <<0, 2, -1, 0, 2, 0>>
DownTimes == {0, 4, 6}
UpTimes == {3, 7}
ChannelOffsets == {0, 2}

InitChannel ==
    /\ HookInit
    /\ VisualizerInit
    /\ \E d \in SeqsUpTo(DownTimes, MaxDown), u \in SeqsUpTo(UpTimes, MaxUp),
          o \in ChannelOffsets, pa \in BOOLEAN, sr \in SampleRates :
           call = [fn |-> "channel",
                   args |-> [audioData |-> ChannelRecording,
                             keyDownTimestamps |-> d, keyUpTimestamps |-> u,
                             offsetMs |-> o, peakAlign |-> pa,
                             peakPosMs |-> DEFAULT_PEAK_POSITION_MS, sampleRate |-> sr,
                             st |-> StartedState(InitialState)],
                   done |-> FALSE, ret |-> Null]

ApplyHookAttack ==
    /\ call.fn = "channel" /\ ~call.done
    /\ LET a == call.args
       IN call' = [call EXCEPT
            !.fn = "calculateAveragedWaveform", !.done = TRUE,
            !.ret = [st |-> calculateAveragedWaveform(a.st, a.audioData, a.keyDownTimestamps,
                               a.keyUpTimestamps, a.offsetMs, a.peakAlign, a.peakPosMs, a.sampleRate),
                     result |-> HookAttackResult(a.audioData, a.keyDownTimestamps,
                               a.keyUpTimestamps, a.offsetMs, a.peakAlign, a.peakPosMs, a.sampleRate)]]
    /\ UNCHANGED <<hookVars, visualizerVars>>

ApplyHookRelease ==
    /\ call.fn = "channel" /\ ~call.done
    /\ LET a == call.args
       IN call' = [call EXCEPT
            !.fn = "calculateReleaseWaveform", !.done = TRUE,
            !.ret = [st |-> calculateReleaseWaveform(a.st, a.audioData, a.keyUpTimestamps,
                               a.keyDownTimestamps, a.offsetMs, a.peakAlign, a.peakPosMs, a.sampleRate),
                     result |-> HookReleaseResult(a.audioData, a.keyUpTimestamps,
                               a.keyDownTimestamps, a.offsetMs, a.peakAlign, a.peakPosMs, a.sampleRate)]]
    /\ UNCHANGED <<hookVars, visualizerVars>>

ApplyMeasurementAttack ==
    /\ call.fn = "channel" /\ ~call.done
    /\ LET a == call.args
       IN call' = [call EXCEPT
            !.fn = "calculateMeasurementAttackWaveform", !.done = TRUE,
            !.ret = calculateMeasurementAttackWaveform(a.audioData, a.keyDownTimestamps,
                               a.keyUpTimestamps, a.offsetMs, a.peakAlign, a.peakPosMs, a.sampleRate)]
    /\ UNCHANGED <<hookVars, visualizerVars>>

ApplyMeasurementRelease ==
    /\ call.fn = "channel" /\ ~call.done
    /\ LET a == call.args
       IN call' = [call EXCEPT
            !.fn = "calculateMeasurementReleaseWaveform", !.done = TRUE,
            !.ret = calculateMeasurementReleaseWaveform(a.audioData, a.keyUpTimestamps,
                               a.keyDownTimestamps, a.offsetMs, a.peakAlign, a.peakPosMs, a.sampleRate)]
    /\ UNCHANGED <<hookVars, visualizerVars>>

\* the offsets a recomputation is asked for
RecalcOffsets == {0, 8}

\* recalculateAveragedWaveform on the session the hook has just averaged
RecalculateAttack ==
    /\ call.fn = "calculateAveragedWaveform" /\ call.done
    /\ \E o \in RecalcOffsets, pa \in BOOLEAN :
          LET a == call.args
          IN call' = [call EXCEPT
               !.fn = "recalculateAveragedWaveform",
               !.args = [a EXCEPT !.offsetMs = o, !.peakAlign = pa, !.st = call.ret.st],
               !.ret = [st |-> recalculateAveragedWaveform(call.ret.st, Some(a.audioData),
                                  a.keyDownTimestamps, a.keyUpTimestamps, o, pa,
                                  a.peakPosMs, a.sampleRate),
                        result |-> HookAttackResult(a.audioData, a.keyDownTimestamps,
                                  a.keyUpTimestamps, o, pa, a.peakPosMs, a.sampleRate)]]
    /\ UNCHANGED <<hookVars, visualizerVars>>

\* recalculateReleaseWaveform on the session the hook has just averaged
RecalculateRelease ==
    /\ call.fn = "calculateReleaseWaveform" /\ call.done
    /\ \E o \in RecalcOffsets, pa \in BOOLEAN :
          LET a == call.args
          IN call' = [call EXCEPT
               !.fn = "recalculateReleaseWaveform",
               !.args = [a EXCEPT !.offsetMs = o, !.peakAlign = pa, !.st = call.ret.st],
               !.ret = [st |-> recalculateReleaseWaveform(call.ret.st, Some(a.audioData),
                                  a.keyUpTimestamps, a.keyDownTimestamps, o, pa,
                                  a.peakPosMs, a.sampleRate),
                        result |-> HookReleaseResult(a.audioData, a.keyUpTimestamps,
                                  a.keyDownTimestamps, o, pa, a.peakPosMs, a.sampleRate)]]
    /\ UNCHANGED <<hookVars, visualizerVars>>

NextChannel ==
    \/ ApplyHookAttack
    \/ ApplyHookRelease
    \/ ApplyMeasurementAttack
    \/ ApplyMeasurementRelease
    \/ RecalculateAttack
    \/ RecalculateRelease

SpecChannel == InitChannel /\ [][NextChannel]_vars

\* the clock mapping: one checkpoint table, with cumulative sample counts
\* strictly increasing as onaudioprocess builds them and times non-decreasing,
\* and two query times
MaxCheckpoints == 3
CheckpointSamples == {2, 4, 6}
CheckpointTimes == {1, 4, 6}
QueryTimes == 0..7

IsCheckpointTable(map) ==
    \A k \in 1..(Len(map) - 1) :
        /\ map[k].samples < map[k + 1].samples
        /\ map[k].playbackTime <= map[k + 1].playbackTime

CheckpointTables ==
    {map \in SeqsUpTo([samples : CheckpointSamples, playbackTime : CheckpointTimes],
                      MaxCheckpoints) : IsCheckpointTable(map)}

InitMap ==
    /\ HookInit
    /\ VisualizerInit
    /\ \E map \in CheckpointTables, q1 \in QueryTimes, q2 \in QueryTimes, t0 \in {0, 2} :
           call = [fn |-> "audioTimeToSampleBasedMs",
                   args |-> [map |-> map, startTime |-> t0, q1 |-> q1, q2 |-> q2],
                   done |-> FALSE, ret |-> Null]

ApplyMap ==
    /\ call.fn = "audioTimeToSampleBasedMs"
    /\ ~call.done
    /\ call' = [call EXCEPT !.done = TRUE, !.ret =
                  [r1 |-> audioTimeToSampleBasedMs(call.args.map, call.args.startTime, call.args.q1),
                   r2 |-> audioTimeToSampleBasedMs(call.args.map, call.args.startTime, call.args.q2)]]
    /\ UNCHANGED <<hookVars, visualizerVars>>

SpecMap == InitMap /\ [][ApplyMap]_vars

\* the checkpoint table over the blocks of one run, for contexts slow enough
\* that the 30 s of checkpoints are a few entries: ret holds the table, the
\* run's totalSamplesRecorded and the history of the blocks delivered
MaxDeliveries == 6
SlowSampleRates == {1, 2}
LongBufferSizes == {8, 15, 30}

InitTable ==
    /\ HookInit
    /\ VisualizerInit
    /\ \E sr \in SlowSampleRates, b \in LongBufferSizes :
           call = [fn |-> "onaudioprocess",
                   args |-> [sampleRate |-> sr, bufferSize |-> b],
                   done |-> FALSE,
                   ret |-> [map |-> <<>>, totalSamplesRecorded |-> 0, delivered |-> <<>>]]

\* the checkpoint lines of onaudioprocess for one more block
ApplyTable ==
    /\ call.fn = "onaudioprocess"
    /\ Len(call.ret.delivered) < MaxDeliveries
    /\ \E drift \in PlaybackDrifts :
          LET a == call.args
              last == IF call.ret.delivered = <<>> THEN 0
                      ELSE call.ret.delivered[Len(call.ret.delivered)].playbackTime
              playbackTime == last + MsDiv(a.bufferSize * 1000, a.sampleRate) + drift
              samples == call.ret.totalSamplesRecorded + a.bufferSize
          IN call' = [call EXCEPT
                 !.done = TRUE,
                 !.ret = [map |-> PushCheckpointAt(call.ret.map, samples, playbackTime,
                                                   a.sampleRate, a.bufferSize),
                          totalSamplesRecorded |-> samples,
                          delivered |-> Append(call.ret.delivered,
                                          [samples |-> samples, playbackTime |-> playbackTime])]]
    /\ UNCHANGED <<hookVars, visualizerVars>>

SpecTable == InitTable /\ [][ApplyTable]_vars

\* the peak search: a buffer, a start index (omitted, inside or past the
\* buffer) and a range length (omitted, 0 or more)
MaxPeakLen == 4
MaxStartIndex == 5
MaxRangeLength == 3
PeakSamples == {-2, 0, 1, 2}

InitPeak ==
    /\ HookInit
    /\ VisualizerInit
    /\ \E data \in SeqsUpTo(PeakSamples, MaxPeakLen),
          start \in {Null} \cup {Some(n) : n \in 0..MaxStartIndex},
          range \in {Null} \cup {Some(n) : n \in 0..MaxRangeLength} :
           \* a range is the third argument: it comes with a start
           /\ IsNull(start) => IsNull(range)
           /\ call = [fn |-> "findPeakIndex",
                      args |-> [data |-> data, searchStartSamples |-> start,
                                searchRangeSamples |-> range],
                      done |-> FALSE, ret |-> Null]

ApplyPeak ==
    /\ call.fn = "findPeakIndex"
    /\ ~call.done
    /\ call' = [call EXCEPT !.done = TRUE, !.ret =
                  findPeakIndex(call.args.data, call.args.searchStartSamples,
                                call.args.searchRangeSamples)]
    /\ UNCHANGED <<hookVars, visualizerVars>>

SpecPeak == InitPeak /\ [][ApplyPeak]_vars

\* the hook's three waveforms over whole sessions: what a session captured
\* (its key lists and its recording) arrives in one step, when the timer fires
RecalcIntervals == {0, 7}

\* the key lists of a session: none, too few to average, enough
SessionDowns == {<<>>, <<0, 4>>, <<0, 4, 6>>, <<0, 0, 4, 6>>}
SessionUps == {<<>>, <<3, 7>>, <<3, 3, 7>>, <<3, 7, 7>>}

\* the recording timer of the run r fires on a session that captured the
\* given recording and the key lists d and u: stopRecording
SessionRecordedOf(r, recording, d, u) ==
    /\ runs[r].phase = "capturing"
    /\ runs' = [runs EXCEPT ![r].phase = "stopped",
                            ![r].recordingChunks = <<recording>>,
                            ![r].totalSamplesRecorded = Len(recording)]
    /\ keyTimestampsRef' = d
    /\ keyUpTimestampsRef' = u
    /\ finalRecordingDataRef' = Some(recording)
    /\ LET stopped == [state EXCEPT !.isRecording = FALSE,
                                    !.keyTapCount = Len(d), !.keyUpCount = Len(u)]
           env == runs[r].env
       IN Schedule(
            calculateReleaseWaveform(
              calculateAveragedWaveform(stopped, recording, d, u,
                  env.windowOffsetMs, TRUE, env.peakPositionMs, ContextSampleRate),
              recording, u, d,
              env.releaseOffsetMs, TRUE, env.peakPositionMs, ContextSampleRate))
    /\ UNCHANGED <<call, mediaStreamRef, audioContextRef, firstChunkReceivedRef,
                   pendingKeyDownTimestampsRef, pendingKeyUpTimestampsRef,
                   sampleTimeMapRef, audioContextStartTimeRef,
                   clock, firedDown, firedUp, firstInputStart>>
    /\ UNCHANGED visualizerVars

\* the same on the recording ChannelRecording
SessionRecorded(r, d, u) == SessionRecordedOf(r, ChannelRecording, d, u)

\* recalculateAveragedWaveform(offsetMs, peakAlign), called from an event
RecalculateAttackWaveform(offsetMs, peakAlign) ==
    /\ Commit(recalculateAveragedWaveform(state, finalRecordingDataRef, keyTimestampsRef,
                  keyUpTimestampsRef, offsetMs, peakAlign, rendered.peakPositionMs,
                  ContextSampleRate))
    /\ UNCHANGED <<call, mediaStreamRef, audioContextRef, firstChunkReceivedRef,
                   pendingKeyDownTimestampsRef, pendingKeyUpTimestampsRef, keyTimestampsRef,
                   keyUpTimestampsRef, sampleTimeMapRef, audioContextStartTimeRef,
                   finalRecordingDataRef, runs, clock, firedDown, firedUp,
                   firstInputStart>>
    /\ UNCHANGED visualizerVars

\* recalculateReleaseWaveform(offsetMs, peakAlign), called from an event
RecalculateReleaseWaveform(offsetMs, peakAlign) ==
    /\ Commit(recalculateReleaseWaveform(state, finalRecordingDataRef, keyUpTimestampsRef,
                  keyTimestampsRef, offsetMs, peakAlign, rendered.peakPositionMs,
                  ContextSampleRate))
    /\ UNCHANGED <<call, mediaStreamRef, audioContextRef, firstChunkReceivedRef,
                   pendingKeyDownTimestampsRef, pendingKeyUpTimestampsRef, keyTimestampsRef,
                   keyUpTimestampsRef, sampleTimeMapRef, audioContextStartTimeRef,
                   finalRecordingDataRef, runs, clock, firedDown, firedUp,
                   firstInputStart>>
    /\ UNCHANGED visualizerVars

\* recalculateCombinedWaveform(intervalMs), called from an event: the
\* waveforms it overlays are those of the render that created it
recalculateCombinedWaveform(intervalMs) ==
    /\ Commit([state EXCEPT
                 !.peakIntervalMs = intervalMs,
                 !.combinedWaveform = CombinedOf([rendered EXCEPT !.peakIntervalMs = intervalMs])])
    /\ UNCHANGED <<call, mediaStreamRef, audioContextRef, firstChunkReceivedRef,
                   pendingKeyDownTimestampsRef, pendingKeyUpTimestampsRef, keyTimestampsRef,
                   keyUpTimestampsRef, sampleTimeMapRef, audioContextStartTimeRef,
                   finalRecordingDataRef, runs, clock, firedDown, firedUp,
                   firstInputStart>>
    /\ UNCHANGED visualizerVars

NextWaveforms ==
    \/ InitializeAudio
    \/ StartRecording
    \/ \E r \in 1..Len(runs) : ResumeResolved(r)
    \/ \E r \in 1..Len(runs), d \in SessionDowns, u \in SessionUps :
          SessionRecorded(r, d, u)
    \/ \E o \in RecalcOffsets, pa \in BOOLEAN : RecalculateAttackWaveform(o, pa)
    \/ \E o \in RecalcOffsets, pa \in BOOLEAN : RecalculateReleaseWaveform(o, pa)
    \/ \E iv \in RecalcIntervals : recalculateCombinedWaveform(iv)
    \/ Render

SpecWaveforms == Init /\ [][NextWaveforms]_vars

----------------------------------------------------------------------------
(* KeytapVisualizer: the measurement history. The component keeps its state
   in one copy here: a render follows each of its set* calls in the same
   step, so its closures hold the value of the step in which they were made. *)

MaxImports == 2

\* a session long enough for the default release offset of 30 ms
VisualizerRecording == <<0, 2, -1, 0, 2, 0, 1, -1, 0, 2, 0, 0, 1, 0, -1, 0, 2, -1, 0, 1>>
VisualizerDowns == {<<>>, <<6, 10, 20>>}
VisualizerUps == {<<>>, <<32, 36>>}

\* the values typed into the peak position input
PeakPositions == {4, 10}

\* the component's state and refs as one value, session being
\* recordingSessionRef.current
Visualizer(session) ==
    [measurementHistory |-> measurementHistory,
     nextMeasurementId |-> nextMeasurementId,
     recordingSessionRef |-> session,
     lastProcessedSessionRef |-> lastProcessedSessionRef]

\* a measurement of the history: its id, where it came from, and (history)
\* the recording session whose completion added it, 0 for an import
Measurement(id, origin, session) == [id |-> id, origin |-> origin, session |-> session]

\* seeded fault: the effect without the session guard
historyEffect_NoGuard(v, s, finalRecordingData) ==
    IF /\ s.status = "completed"
       /\ ~IsNull(s.averagedWaveform)
       /\ ~IsNull(s.combinedWaveform)
       /\ ~IsNull(finalRecordingData)
    THEN [v EXCEPT
            !.lastProcessedSessionRef = v.recordingSessionRef,
            !.measurementHistory =
                Append(@, Measurement(v.nextMeasurementId, "recording", v.recordingSessionRef)),
            !.nextMeasurementId = @ + 1]
    ELSE v

\* the history effect on the render that shows the hook state s and
\* finalRecordingData: what it leaves of the component's state and refs
historyEffect(v, s, finalRecordingData) ==
    IF /\ s.status = "completed"
       /\ ~IsNull(s.averagedWaveform)
       /\ ~IsNull(s.combinedWaveform)
       /\ ~IsNull(finalRecordingData)
    THEN IF v.lastProcessedSessionRef = v.recordingSessionRef
         THEN v
         ELSE [v EXCEPT
                 !.lastProcessedSessionRef = v.recordingSessionRef,
                 !.measurementHistory =
                     Append(@, Measurement(v.nextMeasurementId, "recording", v.recordingSessionRef)),
                 !.nextMeasurementId = @ + 1]
    ELSE v

\* the effect of a commit, and its re-run on the render that its own
\* setNextMeasurementId brings about (nextMeasurementId is a dependency)
historyEffects(v, s, finalRecordingData) ==
    LET w == historyEffect(v, s, finalRecordingData)
    IN IF w = v THEN v ELSE historyEffect(w, s, finalRecordingData)

\* the component's part of a commit that starts from the component state v:
\* the effects run on what the hook has just rendered
CommitVisualizer(v) ==
    LET w == historyEffects(v, rendered', finalRecordingDataRef')
    IN /\ measurementHistory' = w.measurementHistory
       /\ nextMeasurementId' = w.nextMeasurementId
       /\ recordingSessionRef' = w.recordingSessionRef
       /\ lastProcessedSessionRef' = w.lastProcessedSessionRef

\* handleRecordClick, the onClick of the record button (disabled unless
\* canRecord and not isRecording)
handleRecordClick ==
    /\ rendered.canRecord
    /\ ~rendered.isRecording
    /\ mediaStreamRef
    /\ BeginSession
    /\ CommitVisualizer(Visualizer(recordingSessionRef + 1))
    /\ UNCHANGED imports

\* the onChange of the peak position input (disabled while recording)
setPeakPositionMs(positionMs) ==
    /\ ~rendered.isRecording
    /\ Commit([state EXCEPT !.peakPositionMs = positionMs])
    /\ UNCHANGED <<call, mediaStreamRef, audioContextRef, firstChunkReceivedRef,
                   pendingKeyDownTimestampsRef, pendingKeyUpTimestampsRef, keyTimestampsRef,
                   keyUpTimestampsRef, sampleTimeMapRef, audioContextStartTimeRef,
                   finalRecordingDataRef, runs, clock, firedDown, firedUp,
                   firstInputStart>>
    /\ CommitVisualizer(Visualizer(recordingSessionRef))
    /\ UNCHANGED imports

\* the scheduled render of the component
RenderVisualizer ==
    /\ state # rendered
    /\ Commit(state)
    /\ UNCHANGED <<call, mediaStreamRef, audioContextRef, firstChunkReceivedRef,
                   pendingKeyDownTimestampsRef, pendingKeyUpTimestampsRef, keyTimestampsRef,
                   keyUpTimestampsRef, sampleTimeMapRef, audioContextStartTimeRef,
                   finalRecordingDataRef, runs, clock, firedDown, firedUp,
                   firstInputStart>>
    /\ CommitVisualizer(Visualizer(recordingSessionRef))
    /\ UNCHANGED imports

\* handleFileSelect: handleImportMeasurement is called and runs up to its
\* await of file.arrayBuffer(); its closure holds the nextMeasurementId of
\* the render that made it
handleFileSelect ==
    /\ Len(imports) < MaxImports
    /\ imports' = Append(imports, [id |-> nextMeasurementId, phase |-> "reading"])
    /\ UNCHANGED <<call, hookVars, measurementHistory, nextMeasurementId,
                   recordingSessionRef, lastProcessedSessionRef>>

\* file.arrayBuffer() of the import i settles and handleImportMeasurement
\* runs on: the archive is valid and the measurement is appended, or it is
\* not and nothing is. The render after the set* calls shows the hook state
\* of that moment.
ImportResolved(i) ==
    /\ imports[i].phase = "reading"
    /\ imports' = [imports EXCEPT ![i].phase = "done"]
    /\ \E valid \in BOOLEAN :
          IF valid
          THEN /\ Commit(state)
               /\ UNCHANGED finalRecordingDataRef
               /\ CommitVisualizer(
                    [Visualizer(recordingSessionRef) EXCEPT
                       !.measurementHistory = Append(@, Measurement(imports[i].id, "import", 0)),
                       !.nextMeasurementId = @ + 1])
          ELSE UNCHANGED <<state, rendered, stopEnv, finalRecordingDataRef, measurementHistory,
                           nextMeasurementId, recordingSessionRef, lastProcessedSessionRef>>
    /\ UNCHANGED <<call, mediaStreamRef, audioContextRef, firstChunkReceivedRef,
                   pendingKeyDownTimestampsRef, pendingKeyUpTimestampsRef, keyTimestampsRef,
                   keyUpTimestampsRef, sampleTimeMapRef, audioContextStartTimeRef,
                   runs, clock, firedDown, firedUp, firstInputStart>>

NextVisualizer ==
    \/ InitializeAudio
    \/ handleRecordClick
    \/ \E r \in 1..Len(runs) : ResumeResolved(r)
    \/ \E r \in 1..Len(runs), d \in VisualizerDowns, u \in VisualizerUps :
          SessionRecordedOf(r, VisualizerRecording, d, u)
    \/ \E p \in PeakPositions : setPeakPositionMs(p)
    \/ RenderVisualizer
    \/ handleFileSelect
    \/ \E i \in 1..Len(imports) : ImportResolved(i)

SpecVisualizer == Init /\ [][NextVisualizer]_vars

----------------------------------------------------------------------------
(* Helpers of the properties *)

RECURSIVE SeqSum(_)
SeqSum(s) == IF s = <<>> THEN 0 ELSE Head(s) + SeqSum(Tail(s))

\* v is the quotient sum / n on the grid
IsMean(v, sum, n) == n * v <= sum /\ sum < n * (v + 1)

SetMin(S) == CHOOSE m \in S : \A x \in S : m <= x

SyncDone == call.fn = "calculateSyncAveragedWaveform" /\ call.done
SyncHasWaveform == SyncDone /\ ~IsNull(call.ret.waveform)
SyncOut == Val(call.ret.waveform)
SyncWindows == call.ret.windows
TargetPeakSample == (call.args.peakPositionMs * call.args.sampleRate) \div 1000

\* the windows that cover position-locked output index j (0-based)
Covering(j) == {k \in 1..Len(SyncWindows) : Len(SyncWindows[k].data) > j}
CoveringSum(j) ==
    SeqSum([k \in 1..Len(SyncWindows) |->
              IF k \in Covering(j) THEN SyncWindows[k].data[j + 1] ELSE 0])

----------------------------------------------------------------------------
(* C2: position-locked averaging divides by the per-sample contributor count.
   In position-locked mode every output index j holds the sum of w.data[j]
   over the windows longer than j divided by the number of those windows (an
   index no window covers holds the empty sum, 0); for windows of one common
   length L every output index below L is the plain mean over all N windows. *)
C2_PositionLockedMean ==
    (SyncHasWaveform /\ ~call.args.peakAlign) =>
        /\ \A j \in 0..(Len(SyncOut) - 1) :
              IF Covering(j) = {} THEN SyncOut[j + 1] = 0
              ELSE IsMean(SyncOut[j + 1], CoveringSum(j), Cardinality(Covering(j)))
        /\ \A L \in 1..MaxAudioLen + 1 :
              (\A k \in 1..Len(SyncWindows) : Len(SyncWindows[k].data) = L) =>
                 \A j \in 0..(Min(L, Len(SyncOut)) - 1) :
                    IsMean(SyncOut[j + 1],
                           SeqSum([k \in 1..Len(SyncWindows) |-> SyncWindows[k].data[j + 1]]),
                           call.ret.windowCount)

\* two windows of different lengths, and an output index only one of them covers
C2_Witness ==
    /\ SyncHasWaveform /\ ~call.args.peakAlign
    /\ Len(SyncWindows) = 2
    /\ \E j \in 0..(Len(SyncOut) - 1) :
          /\ Cardinality(Covering(j)) = 1
          /\ CoveringSum(j) # 0

(* C3: in peak-locked mode the output length is
   targetPeakSample + min over windows (length - 1 - peakIndex) + 1. *)
C3_PeakLockedLength ==
    (SyncHasWaveform /\ call.args.peakAlign) =>
        Len(SyncOut) = TargetPeakSample
            + SetMin({Len(SyncWindows[k].data) - 1 - SyncWindows[k].peakIndex :
                        k \in 1..Len(SyncWindows)})
            + 1

\* two windows whose post-peak extents differ
C3_Witness ==
    /\ SyncHasWaveform /\ call.args.peakAlign
    /\ Len(SyncWindows) = 2
    /\ Len(SyncWindows[1].data) - SyncWindows[1].peakIndex
         # Len(SyncWindows[2].data) - SyncWindows[2].peakIndex
    /\ TargetPeakSample > 0

(* C4: in peak-locked mode every window contributes, at every output index
   j >= targetPeakSample, the sample j - targetPeakSample after its own peak,
   so the output there is the mean over all windowCount windows and
   output[targetPeakSample] is the mean of the windows' peak samples. *)
C4_PeakAligned ==
    (SyncHasWaveform /\ call.args.peakAlign) =>
        /\ TargetPeakSample < Len(SyncOut)
        /\ \A j \in TargetPeakSample..(Len(SyncOut) - 1) :
              /\ \A k \in 1..Len(SyncWindows) :
                    SyncWindows[k].peakIndex + (j - TargetPeakSample) < Len(SyncWindows[k].data)
              /\ IsMean(SyncOut[j + 1],
                        SeqSum([k \in 1..Len(SyncWindows) |->
                                  SyncWindows[k].data[SyncWindows[k].peakIndex + (j - TargetPeakSample) + 1]]),
                        call.ret.windowCount)

\* two windows with peaks at different indices, both moved to the target
C4_Witness ==
    /\ SyncHasWaveform /\ call.args.peakAlign
    /\ Len(SyncWindows) = 2
    /\ SyncWindows[1].peakIndex # SyncWindows[2].peakIndex
    /\ SyncWindows[1].data[SyncWindows[1].peakIndex + 1] # 0
    /\ SyncWindows[2].data[SyncWindows[2].peakIndex + 1] # 0
    /\ SyncOut[TargetPeakSample + 1] # 0

(* The terms of C5 *)
EndsDone == call.fn = "calculateWindowEndTimestamps" /\ call.done
Anchors == call.args.timestamps
Alternates == call.args.alternateTimestamps
LaterAlternates(i) == {k \in 1..Len(Alternates) : Alternates[k] > Anchors[i]}
NextSame(i) == IF i < Len(Anchors) THEN Some(Anchors[i + 1]) ELSE Null
IsSorted(s) == \A k \in 1..(Len(s) - 1) : s[k] <= s[k + 1]

\* the end the policy prescribes when the later alternate it picks is alt
\* (Null: there is none)
PolicyEnd(i, alt) ==
    IF IsNull(NextSame(i)) /\ IsNull(alt) THEN Anchors[i] + 100
    ELSE IF IsNull(NextSame(i)) THEN Val(alt)
    ELSE IF IsNull(alt) THEN Val(NextSame(i))
    ELSE Min(Val(NextSame(i)), Val(alt))

FirstLaterAlternate(i) ==
    IF LaterAlternates(i) = {} THEN Null
    ELSE Some(Alternates[SetMin(LaterAlternates(i))])

SmallestLaterAlternate(i) ==
    IF LaterAlternates(i) = {} THEN Null
    ELSE Some(SetMin({Alternates[k] : k \in LaterAlternates(i)}))

(* C5, as the code computes it: calculateWindowEndTimestamps returns one end per anchor:
   min(next anchor or +infinity, the FIRST alternate in list order that is
   later than the anchor, or +infinity), replaced by anchor + 100 exactly when
   both are +infinity.  When the alternates are in non-decreasing order that
   first later alternate is the smallest later alternate. *)
C5_EndsFirstLater ==
    EndsDone =>
        /\ Len(call.ret) = Len(Anchors)
        /\ \A i \in 1..Len(Anchors) :
              /\ call.ret[i] = PolicyEnd(i, FirstLaterAlternate(i))
              /\ IsSorted(Alternates) => call.ret[i] = PolicyEnd(i, SmallestLaterAlternate(i))

\* a sorted alternates list whose first later element ends a window before
\* the next anchor does, and a last anchor that takes the fallback
C5_Witness ==
    /\ EndsDone
    /\ Len(Anchors) = 2 /\ Len(Alternates) >= 2 /\ IsSorted(Alternates)
    /\ call.ret[1] < Anchors[2]
    /\ call.ret[1] = Alternates[2]
    /\ call.ret[2] = Anchors[2] + 100

(* C5, as stated: the end uses the SMALLEST alternate later than the anchor,
   for every alternates list, sorted or not. *)
C5_Original ==
    EndsDone =>
        /\ Len(call.ret) = Len(Anchors)
        /\ \A i \in 1..Len(Anchors) : call.ret[i] = PolicyEnd(i, SmallestLaterAlternate(i))

(* The terms of C6 *)
SyncArgs == call.args
OffsetSamples == (SyncArgs.offsetMs * SyncArgs.sampleRate) \div 1000
EndOf(i) == IF i <= Len(SyncArgs.endTimestamps) THEN SyncArgs.endTimestamps[i]
            ELSE SyncArgs.timestamps[i] + 100
StartSample(i) == ((SyncArgs.timestamps[i] * SyncArgs.sampleRate) \div 1000) - OffsetSamples
EndSample(i) == Min(((EndOf(i) * SyncArgs.sampleRate) \div 1000) + OffsetSamples,
                    Len(SyncArgs.audioData))
Kept == {i \in 1..Len(SyncArgs.timestamps) : StartSample(i) >= 0 /\ EndSample(i) > StartSample(i)}
\* the anchor of the k-th window: the k-th smallest kept index
KeptAt(k) == CHOOSE i \in Kept : Cardinality({m \in Kept : m < i}) = k - 1

(* C6: window extraction keeps exactly the anchors whose window
   [anchorSample - offsetSamples, min(endSample + offsetSamples, audio length))
   starts at or after 0 and is non-empty; the windows come in anchor order,
   each holds exactly those audio samples and its anchor as timestampMs, and
   windowCount is the number of windows. *)
C6_WindowExtraction ==
    SyncDone =>
        /\ Len(SyncWindows) = Cardinality(Kept)
        /\ call.ret.windowCount = Len(SyncWindows)
        /\ \A k \in 1..Len(SyncWindows) :
              LET i == KeptAt(k)
              IN /\ SyncWindows[k].timestampMs = SyncArgs.timestamps[i]
                 /\ Len(SyncWindows[k].data) >= 1
                 /\ SyncWindows[k].data = SubSeq(SyncArgs.audioData, StartSample(i) + 1, EndSample(i))

\* the first anchor is dropped for a negative start, the second is kept with
\* its end clamped to the end of the recording
C6_Witness ==
    /\ SyncDone
    /\ Len(SyncArgs.timestamps) = 2
    /\ StartSample(1) < 0
    /\ Kept = {2}
    /\ ((EndOf(2) * SyncArgs.sampleRate) \div 1000) + OffsetSamples > Len(SyncArgs.audioData)
    /\ Len(SyncWindows) = 1

(* The terms of C7 *)
CombineDone == call.fn = "calculateCombinedWaveform" /\ call.done
Attack == call.args.attackWaveform
Release == call.args.releaseWaveform
\* the lowest index holding the largest magnitude, 0 for an all-zero waveform
PeakOf(w) ==
    IF \A k \in 1..Len(w) : w[k] = 0 THEN 0
    ELSE (CHOOSE k \in 1..Len(w) :
            /\ \A m \in 1..Len(w) : Abs(w[m]) <= Abs(w[k])
            /\ \A m \in 1..(k - 1) : Abs(w[m]) < Abs(w[k])) - 1
ReleaseStartOffset ==
    PeakOf(Attack) + ((call.args.intervalMs * call.args.sampleRate) \div 1000) - PeakOf(Release)

(* C7: the combined waveform has length
   max(attack.length, releaseStartOffset + release.length) and every index k
   holds attack[k] (0 beyond the attack) plus release[k - releaseStartOffset]
   (0 outside the release): release samples at negative indices are dropped
   and overlapping samples are added. *)
C7_CombinedOverlay ==
    CombineDone =>
        /\ Len(call.ret) = Max(Len(Attack), ReleaseStartOffset + Len(Release))
        /\ \A k \in 0..(Len(call.ret) - 1) :
              call.ret[k + 1] =
                  (IF k < Len(Attack) THEN Attack[k + 1] ELSE 0)
                + (IF 0 <= k - ReleaseStartOffset /\ k - ReleaseStartOffset < Len(Release)
                   THEN Release[k - ReleaseStartOffset + 1] ELSE 0)

\* a release that starts before index 0 and overlaps the attack
C7_Witness ==
    /\ CombineDone
    /\ ReleaseStartOffset < 0
    /\ Len(Attack) >= 2 /\ Len(Release) >= 2
    /\ \E k \in 0..(Len(Attack) - 1) :
          /\ 0 <= k - ReleaseStartOffset /\ k - ReleaseStartOffset < Len(Release)
          /\ Attack[k + 1] # 0 /\ Release[k - ReleaseStartOffset + 1] # 0

(* C9: calculateSyncAveragedWaveform returns waveform = null, windowCount = 0,
   windows = [] and outputLengthMs = 0 exactly when no window is retained, and
   otherwise a non-null waveform of at least one sample. *)
C9_NoWaveformIffNoWindow ==
    SyncDone =>
        IF Kept = {}
        THEN /\ IsNull(call.ret.waveform)
             /\ call.ret.windowCount = 0
             /\ call.ret.windows = <<>>
             /\ call.ret.outputLengthMs = 0
        ELSE /\ ~IsNull(call.ret.waveform)
             /\ Len(SyncOut) >= 1
             /\ call.ret.windowCount >= 1

\* anchors and audio are present, yet extraction rejects every window
C9_Witness ==
    /\ SyncDone
    /\ Len(SyncArgs.timestamps) = 2
    /\ Len(SyncArgs.audioData) > 0
    /\ Kept = {}
    /\ IsNull(call.ret.waveform)

(* The terms of C8 *)
HookAttackDone == call.fn = "calculateAveragedWaveform" /\ call.done
HookReleaseDone == call.fn = "calculateReleaseWaveform" /\ call.done
MeasurementAttackDone == call.fn = "calculateMeasurementAttackWaveform" /\ call.done
MeasurementReleaseDone == call.fn = "calculateMeasurementReleaseWaveform" /\ call.done

(* C8: with fewer than 3 key-down timestamps the attack channel performs no
   averaging and its waveform is absent with no window; with fewer than 2
   key-up timestamps the same holds of the release channel. *)
C8_TooFewEvents ==
    /\ (HookAttackDone /\ Len(call.args.keyDownTimestamps) < 3) =>
          /\ IsNull(call.ret.result)
          /\ IsNull(call.ret.st.averagedWaveform)
    /\ (MeasurementAttackDone /\ Len(call.args.keyDownTimestamps) < 3) =>
          /\ IsNull(call.ret.waveform)
          /\ Len(call.ret.windows) = 0
    /\ (HookReleaseDone /\ Len(call.args.keyUpTimestamps) < 2) =>
          /\ IsNull(call.ret.result)
          /\ IsNull(call.ret.st.releaseWaveform)
    /\ (MeasurementReleaseDone /\ Len(call.args.keyUpTimestamps) < 2) =>
          /\ IsNull(call.ret.waveform)
          /\ Len(call.ret.windows) = 0

\* two key-downs whose windows would both lie inside the recording
C8_Witness ==
    /\ HookAttackDone
    /\ call.args.keyDownTimestamps = <<4, 6>>
    /\ call.args.offsetMs = 0
    /\ IsNull(call.ret.st.averagedWaveform)

(* The terms of C10 *)
\* ws is obtained from s by deleting entries
RECURSIVE IsSubsequence(_, _)
IsSubsequence(ws, s) ==
    IF ws = <<>> THEN TRUE
    ELSE IF s = <<>> THEN FALSE
    ELSE IF Head(ws) = Head(s) THEN IsSubsequence(Tail(ws), Tail(s))
    ELSE IsSubsequence(ws, Tail(s))

WindowTimes(windows) == [k \in 1..Len(windows) |-> windows[k].timestampMs]
ChannelWindows ==
    IF HookAttackDone \/ HookReleaseDone
    THEN (IF IsNull(call.ret.result) THEN <<>> ELSE Val(call.ret.result).windows)
    ELSE call.ret.windows
\* the list without its entries at position 0 and at the last position
Inner(s) == [k \in 1..(Len(s) - 2) |-> s[k + 1]]

(* C10, as the code computes it: the attack channel takes its anchors from the key-down
   list without its first and last entry; the release channel does the same
   with the key-up list when it has 3 or more entries, and with exactly 2
   key-ups its single anchor is the FIRST key-up (only the last is
   excluded).  The windows' timestamps are those anchors, in order, less the
   anchors extraction drops. *)
C10_AnchorsTrimmed ==
    /\ (HookAttackDone \/ MeasurementAttackDone) =>
          IsSubsequence(WindowTimes(ChannelWindows), Inner(call.args.keyDownTimestamps))
    /\ (HookReleaseDone \/ MeasurementReleaseDone) =>
          IF Len(call.args.keyUpTimestamps) = 2
          THEN IsSubsequence(WindowTimes(ChannelWindows), <<call.args.keyUpTimestamps[1]>>)
          ELSE IsSubsequence(WindowTimes(ChannelWindows), Inner(call.args.keyUpTimestamps))

\* four key-downs: both inner ones are averaged, the outer two are not
C10_Witness ==
    /\ HookAttackDone
    /\ call.args.keyDownTimestamps = <<0, 4, 6, 6>>
    /\ WindowTimes(ChannelWindows) = <<4, 6>>

(* C10, as stated: in both channels no window is anchored at the first or
   the last entry of the channel's list, whatever the length of the list. *)
C10_Original ==
    /\ (HookAttackDone \/ MeasurementAttackDone) =>
          IsSubsequence(WindowTimes(ChannelWindows), Inner(call.args.keyDownTimestamps))
    /\ (HookReleaseDone \/ MeasurementReleaseDone) =>
          IsSubsequence(WindowTimes(ChannelWindows), Inner(call.args.keyUpTimestamps))

----------------------------------------------------------------------------
(* C1: the pending queues of a recording session *)

\* a block of the newest session has been delivered
FirstBlockDelivered == ~IsNull(firstInputStart)

\* the list begins with the resolved clock readings, in the order they fired
BeginsWithResolved(timestamps, fired) ==
    /\ Len(timestamps) >= Len(fired)
    /\ SubSeq(timestamps, 1, Len(fired)) = Drained(fired, Val(firstInputStart))

\* C1: within a recording session, the key-downs (key-ups) handled while
\* recording is active and before the first block are exactly what the
\* pending queue holds, none dropped; once the first block is delivered
\* each of them stands in keyTimestamps (keyUpTimestamps) once, resolved,
\* in the order fired, the queues are empty and stay empty.
C1_PendingDrainedOnce ==
    IF ~FirstBlockDelivered
    THEN /\ pendingKeyDownTimestampsRef = firedDown
         /\ pendingKeyUpTimestampsRef = firedUp
    ELSE /\ pendingKeyDownTimestampsRef = <<>>
         /\ pendingKeyUpTimestampsRef = <<>>
         /\ BeginsWithResolved(keyTimestampsRef, firedDown)
         /\ BeginsWithResolved(keyUpTimestampsRef, firedUp)

----------------------------------------------------------------------------
(* The terms of C11 and C12 *)

MapDone == call.fn = "audioTimeToSampleBasedMs" /\ call.done
Table == call.args.map

\* the checkpoint times are strictly increasing, as the playbackTime of
\* successive blocks is
StrictTimes ==
    \A k \in 1..(Len(Table) - 1) : Table[k].playbackTime < Table[k + 1].playbackTime

\* a sample count in ms
SamplesMs(samples) == (samples * 1000) \div ContextSampleRate

(* C11: on a fixed checkpoint table, non-decreasing in samples and in time,
   audioTimeToSampleBasedMs is non-decreasing in the query: q1 <= q2 implies
   result(q1) <= result(q2), before the first checkpoint, after the last and
   in between. *)
C11_Monotone ==
    (MapDone /\ call.args.q1 <= call.args.q2) => call.ret.r1 <= call.ret.r2

\* two queries on different sides of a checkpoint of a table with 2 or more
\* entries, with different results
C11_Witness ==
    /\ MapDone
    /\ Len(Table) >= 2
    /\ call.args.q1 < Table[1].playbackTime
    /\ call.args.q2 > Table[1].playbackTime
    /\ call.args.q2 < Table[Len(Table)].playbackTime
    /\ call.ret.r1 < call.ret.r2

\* the query of C12 and its result
Query == call.args.q1
Result == call.ret.r1

\* the last checkpoint at or before the query, the first at or after it
PrevIndex == CHOOSE k \in 1..Len(Table) :
    /\ Table[k].playbackTime <= Query
    /\ \A j \in (k + 1)..Len(Table) : Table[j].playbackTime > Query
NextIndex == CHOOSE k \in 1..Len(Table) :
    /\ Table[k].playbackTime >= Query
    /\ \A j \in 1..(k - 1) : Table[j].playbackTime < Query

\* the position reached from one checkpoint at the sample rate, in ms
Extrapolated(entry) ==
    (entry.samples * 1000 + (Query - entry.playbackTime) * ContextSampleRate)
        \div ContextSampleRate

\* the position on the line through two checkpoints, in ms
Interpolated(prev, next) ==
    ((prev.samples * (next.playbackTime - prev.playbackTime)
        + (next.samples - prev.samples) * (Query - prev.playbackTime)) * 1000)
        \div ((next.playbackTime - prev.playbackTime) * ContextSampleRate)

InsideTable ==
    /\ Len(Table) > 0
    /\ Table[1].playbackTime <= Query
    /\ Query <= Table[Len(Table)].playbackTime

(* C12: on a table whose checkpoint times increase, a query between the first
   and the last checkpoint time is interpolated between the last checkpoint at
   or before it and the first at or after it, the result lying between their
   sample counts in ms; a query at a checkpoint's time gives that checkpoint's
   sample count in ms; a query before the first or after the last checkpoint
   is extrapolated from that checkpoint alone at the sample rate. *)
C12_Interpolated ==
    (MapDone /\ Len(Table) > 0 /\ StrictTimes) =>
        IF Query < Table[1].playbackTime THEN Result = Extrapolated(Table[1])
        ELSE IF Query > Table[Len(Table)].playbackTime
             THEN Result = Extrapolated(Table[Len(Table)])
        ELSE IF PrevIndex = NextIndex
             THEN /\ Table[PrevIndex].playbackTime = Query
                  /\ Result = SamplesMs(Table[PrevIndex].samples)
        ELSE /\ Result = Interpolated(Table[PrevIndex], Table[NextIndex])
             /\ SamplesMs(Table[PrevIndex].samples) <= Result
             /\ Result <= SamplesMs(Table[NextIndex].samples)

\* a query strictly between the second and the third checkpoint of a table
C12_Witness ==
    /\ MapDone
    /\ Len(Table) = 3
    /\ StrictTimes
    /\ Table[2].playbackTime < Query
    /\ Query < Table[3].playbackTime
    /\ Result > SamplesMs(Table[2].samples)
    /\ Result < SamplesMs(Table[3].samples)

----------------------------------------------------------------------------
(* The terms of C13 *)

TableRun == call.fn = "onaudioprocess"
Delivered == call.ret.delivered

\* ceil(30 * sampleRate / bufferSize): the least n with n * bufferSize >= 30 * sampleRate
MaxEntriesOf(sampleRate, bufferSize) ==
    CHOOSE n \in 0..(30 * sampleRate) :
        /\ n * bufferSize >= 30 * sampleRate
        /\ (n - 1) * bufferSize < 30 * sampleRate

\* the last n entries of s, all of s when it is shorter
LastEntries(s, n) == SubSeq(s, Max(1, Len(s) - n + 1), Len(s))

(* C13: every delivered block appends one checkpoint, and after every append
   the table is the most recent checkpoints, at most
   maxEntries = ceil(30 * sampleRate / bufferSize) of them, in arrival order,
   with strictly increasing cumulative sample counts. *)
C13_TableBounded ==
    TableRun =>
        LET maxEntries == MaxEntriesOf(call.args.sampleRate, call.args.bufferSize)
        IN /\ Len(call.ret.map) <= maxEntries
           /\ call.ret.map = LastEntries(Delivered, maxEntries)
           /\ \A k \in 1..(Len(call.ret.map) - 1) :
                 call.ret.map[k].samples < call.ret.map[k + 1].samples

\* more blocks were delivered than the table keeps: entries were evicted
C13_Witness ==
    /\ TableRun
    /\ Len(Delivered) > Len(call.ret.map)
    /\ Len(call.ret.map) = 4
    /\ call.ret.map[1] = Delivered[Len(Delivered) - 3]

----------------------------------------------------------------------------
(* C14: within a session the timestamps appended to keyTimestamps, and those
   appended to keyUpTimestamps, are in non-decreasing order, whatever
   checkpoints are recorded between two key events. *)
C14_TimestampsOrdered ==
    /\ IsSorted(keyTimestampsRef)
    /\ IsSorted(keyUpTimestampsRef)

----------------------------------------------------------------------------
(* The terms of C15 *)

RecalcAttackDone == call.fn = "recalculateAveragedWaveform"
RecalcReleaseDone == call.fn = "recalculateReleaseWaveform"

\* the waveform of the computation just made: Null when it was skipped or
\* kept no window
NewWaveform == IF IsNull(call.ret.result) THEN Null ELSE Val(call.ret.result).waveform

(* C15: after recalculateAveragedWaveform or recalculateReleaseWaveform on a
   finalized session the exposed waveform of the channel is the waveform of
   the new computation, and is absent when the new computation keeps no
   window. *)
C15_RecalcReplaces ==
    /\ RecalcAttackDone => call.ret.st.averagedWaveform = NewWaveform
    /\ RecalcReleaseDone => call.ret.st.releaseWaveform = NewWaveform

----------------------------------------------------------------------------
(* The terms of C16 *)

\* the end timestamp a window was cut at: windowLengthMs is
\* (end - anchor) + 2 * offsetMs
WindowEndMs(w) == w.timestampMs + w.windowLengthMs - 2 * call.args.offsetMs

\* the session's lists are in chronological order
ChronologicalSession ==
    /\ IsSorted(call.args.keyDownTimestamps)
    /\ IsSorted(call.args.keyUpTimestamps)

(* C16: in the attack channel of a session with chronological lists, every
   averaged window is anchored at a key-down of the session that is followed
   by another key-down, and its resolved end is not later than that next
   key-down. *)
C16_EndBeforeNextTap ==
    ((HookAttackDone \/ MeasurementAttackDone) /\ ChronologicalSession) =>
        \A k \in 1..Len(ChannelWindows) :
            \E i \in 1..(Len(call.args.keyDownTimestamps) - 1) :
                /\ call.args.keyDownTimestamps[i] = ChannelWindows[k].timestampMs
                /\ WindowEndMs(ChannelWindows[k]) <= call.args.keyDownTimestamps[i + 1]

----------------------------------------------------------------------------
(* The terms of C17 *)

\* the output length of the same call made with another peak position and on
\* another recording of the same length (the same window bounds, other
\* samples and so other peaks)
LengthWith(peakPositionMs, audioData) ==
    Len(Val(calculateSyncAveragedWaveform(
              [SyncArgs EXCEPT !.peakPositionMs = peakPositionMs,
                               !.audioData = audioData]).waveform))

(* C17: in position-locked mode (peakAlign = false) the output length is a
   target length that varies neither with peakPositionMs nor with the
   windows' detected peak indices: the same anchors, ends and offset on a
   recording of the same length give an output of the same length. *)
C17_PositionLockedLength ==
    (SyncDone /\ SyncHasWaveform /\ ~SyncArgs.peakAlign) =>
        \A pp \in PeakPositionValues :
            \A a \in {b \in AudioBuffers : Len(b) = Len(SyncArgs.audioData)} :
                LengthWith(pp, a) = Len(SyncOut)

----------------------------------------------------------------------------
(* The terms of C18 and C19 *)

PeakDone == call.fn = "findPeakIndex" /\ call.done
PeakData == call.args.data
StartIndex == IF IsNull(call.args.searchStartSamples) THEN 0
              ELSE Val(call.args.searchStartSamples)

\* the indices the loop visits: to the end of the data when no range is
\* given (or the range given is 0), else the range clipped to the data
ScannedRange ==
    IF IsNull(call.args.searchRangeSamples) \/ Val(call.args.searchRangeSamples) = 0
    THEN {i \in 0..(Len(PeakData) - 1) : i >= StartIndex}
    ELSE {i \in 0..(Len(PeakData) - 1) :
             i >= StartIndex /\ i < StartIndex + Val(call.args.searchRangeSamples)}

\* the range the caller asked for: [startIndex, min(startIndex + rangeLength, length))
RequestedRange ==
    IF IsNull(call.args.searchRangeSamples)
    THEN {i \in 0..(Len(PeakData) - 1) : i >= StartIndex}
    ELSE {i \in 0..(Len(PeakData) - 1) :
             i >= StartIndex /\ i < StartIndex + Val(call.args.searchRangeSamples)}

\* the largest magnitude over a set of indices, 0 over the empty set
MaxMagnitude(range) ==
    IF range = {} THEN 0
    ELSE CHOOSE m \in {Abs(PeakData[i + 1]) : i \in range} :
            \A i \in range : Abs(PeakData[i + 1]) <= m

(* C18: findPeakIndex returns the lowest index of the scanned range whose
   magnitude is the largest magnitude of the range, a negative sample counting
   by its magnitude and a tie going to the earliest index; it returns
   startIndex when every scanned sample is 0. *)
C18_EarliestLargestMagnitude ==
    PeakDone =>
        IF MaxMagnitude(ScannedRange) = 0 THEN call.ret = StartIndex
        ELSE /\ call.ret \in ScannedRange
             /\ Abs(PeakData[call.ret + 1]) = MaxMagnitude(ScannedRange)
             /\ \A i \in ScannedRange :
                   i < call.ret => Abs(PeakData[i + 1]) < MaxMagnitude(ScannedRange)

\* a tie between a negative and a later positive sample of the largest
\* magnitude, after a smaller sample
C18_Witness ==
    /\ PeakDone
    /\ PeakData = <<1, -2, 0, 2>>
    /\ IsNull(call.args.searchStartSamples)
    /\ call.ret = 1

(* C19: findPeakIndex(data, startIndex, rangeLength) returns an index of
   [startIndex, min(startIndex + rangeLength, data.length)), or startIndex when
   that range is empty, for every rangeLength >= 0, 0 included, and every
   startIndex, those at or past the end of data included. *)
C19_WithinRequestedRange ==
    PeakDone =>
        IF RequestedRange = {} THEN call.ret = StartIndex
        ELSE call.ret \in RequestedRange

----------------------------------------------------------------------------
(* The terms of C20 *)

IntervalSamples == (call.args.intervalMs * call.args.sampleRate) \div 1000
\* the output index intervalSamples after the attack's peak
ReleasePeakTarget == PeakOf(Attack) + IntervalSamples

(* C20: for non-empty attack and release waveforms and intervalMs >= 0, the
   release's detected peak sample is added at index
   attackPeak + intervalSamples, with
   intervalSamples = floor(intervalMs / 1000 * sampleRate), and that index is
   inside the combined waveform. *)
C20_ReleasePeakPlaced ==
    (CombineDone /\ Attack # <<>> /\ Release # <<>> /\ call.args.intervalMs >= 0) =>
        /\ ReleasePeakTarget \in 0..(Len(call.ret) - 1)
        /\ call.ret[ReleasePeakTarget + 1] =
                (IF ReleasePeakTarget < Len(Attack) THEN Attack[ReleasePeakTarget + 1] ELSE 0)
              + Release[PeakOf(Release) + 1]

\* a release whose peak is not its first sample lands on the attack's tail,
\* an interval that is not a whole number of samples after the attack's peak
C20_Witness ==
    /\ CombineDone
    /\ Attack = <<0, 2, -1>>
    /\ Release = <<-1, 2>>
    /\ call.args.intervalMs = 3
    /\ ReleasePeakTarget = 2
    /\ call.ret = <<0, 1, 1>>

----------------------------------------------------------------------------
(* C21: every timestamp stored in the key-down and key-up lists is
   non-negative, the timestamps of events that fired before the first audio
   block and are resolved against the corrected stream start time (the first
   block's playbackTime minus one buffer duration) included. *)
C21_TimestampsNonNegative ==
    /\ \A k \in 1..Len(keyTimestampsRef) : keyTimestampsRef[k] >= 0
    /\ \A k \in 1..Len(keyUpTimestampsRef) : keyUpTimestampsRef[k] >= 0

----------------------------------------------------------------------------
(* The terms of C22 *)

\* a step that renders synchronously while there is no media stream: a call
\* of startRecording (initializeAudio leaves its updates to a later render,
\* and that render starts from a status that is already 'error')
NoStreamCall ==
    /\ ~mediaStreamRef
    /\ state.status # "error"
    /\ rendered' # rendered

(* C22: startRecording called before initializeAudio has succeeded (no media
   stream) sets status to 'error', leaves isRecording false and starts no
   capture: the timestamp lists, the key counts and the waveforms stay as
   they were. *)
C22_NoStreamNoCapture ==
    [][NoStreamCall =>
          /\ state'.status = "error" /\ rendered'.status = "error"
          /\ ~state'.isRecording /\ ~rendered'.isRecording
          /\ runs' = runs
          /\ audioContextRef' = audioContextRef
          /\ keyTimestampsRef' = keyTimestampsRef
          /\ keyUpTimestampsRef' = keyUpTimestampsRef
          /\ state'.keyTapCount = state.keyTapCount
          /\ state'.keyUpCount = state.keyUpCount
          /\ state'.averagedWaveform = state.averagedWaveform
          /\ state'.releaseWaveform = state.releaseWaveform
          /\ state'.combinedWaveform = state.combinedWaveform]_vars

\* the hook after a start without a stream: in error, not recording, no
\* session begun, permission neither granted nor refused
C22_Witness ==
    /\ ~mediaStreamRef
    /\ rendered.status = "error"
    /\ state = rendered
    /\ ~rendered.isRecording
    /\ runs = <<>>
    /\ IsNull(audioContextRef)

----------------------------------------------------------------------------
(* The terms of C23 *)

\* the session startRecording began last
CurrentRun == runs[Len(runs)]

\* a step that stores a key timestamp
TimestampStored ==
    \/ Len(keyTimestampsRef') > Len(keyTimestampsRef)
    \/ Len(keyUpTimestampsRef') > Len(keyUpTimestampsRef)

\* the checkpoint table holds one checkpoint per block of the session r, the
\* last of them at the session's sample count
TableOfRun(map, r) ==
    /\ Len(map) = r.totalSamplesRecorded \div BufferSize
    /\ Len(map) > 0
    /\ map[Len(map)].samples = r.totalSamplesRecorded
    /\ map[Len(map)].playbackTime = r.lastPlaybackTime

(* C23: every timestamp recorded in a session is computed from that session's
   own stream start time and checkpoint table: once startRecording has begun a
   new session, no key event is resolved against the checkpoint table or the
   first-chunk-received flag of the session before, the key events that fire
   while startRecording awaits AudioContext.resume() included. *)
C23_OwnSessionOnly ==
    [][TimestampStored =>
          /\ runs # <<>>
          /\ runs'[Len(runs)].phase # "awaiting"
          /\ TableOfRun(sampleTimeMapRef', runs'[Len(runs)])]_vars

----------------------------------------------------------------------------
(* The terms of C24 *)

\* the calls of startRecording whose script processor is connected, or about
\* to be, and whose stop timer has not fired
ActiveRuns == {r \in 1..Len(runs) : runs[r].phase # "stopped"}

(* C24: at most one capture session is active at a time: a startRecording
   call made while a recording is in progress, a second call issued before the
   first call's isRecording update has been rendered included, creates no
   second script processor and no second stop timer. *)
C24_OneActiveSession == Cardinality(ActiveRuns) <= 1

----------------------------------------------------------------------------
(* The terms of C25 *)

Recording == rendered.isRecording /\ rendered.status = "recording"
Stopped == ~rendered.isRecording /\ rendered.status \in {"completed", "error"}

(* C25: every recording that starts eventually stops: isRecording becomes
   false and status becomes 'completed' or 'error', whatever key events and
   audio blocks occurred, no audio block at all and fewer than 2 key-up events
   included. *)
C25_RecordingStops == Recording ~> Stopped

\* a recording that ended without a single audio block, followed by one that
\* ended with blocks and a single key-up
C25_Witness ==
    /\ Stopped
    /\ Len(runs) = 2
    /\ runs[1].phase = "stopped" /\ runs[1].recordingChunks = <<>>
    /\ runs[2].phase = "stopped" /\ Len(runs[2].recordingChunks) = MaxBlocks
    /\ Len(keyUpTimestampsRef) = 1
    /\ rendered.status = "completed"

----------------------------------------------------------------------------
(* The terms of C26 *)

\* no state update is waiting for a render
Settled == state = rendered

(* C26: once the state updates have settled, combinedWaveform is non-null
   exactly when averagedWaveform and releaseWaveform both are, and it is then
   the overlay of those two waveforms at the current peakIntervalMs; a
   recording that has started and is rendered has none of the three. *)
C26_CombinedFollows ==
    /\ Settled =>
          /\ IsNull(state.combinedWaveform)
                <=> (IsNull(state.averagedWaveform) \/ IsNull(state.releaseWaveform))
          /\ ~IsNull(state.combinedWaveform) =>
                Val(state.combinedWaveform)
                  = calculateCombinedWaveform(Val(state.averagedWaveform),
                        Val(state.releaseWaveform), state.peakIntervalMs, ContextSampleRate)
    /\ rendered.isRecording =>
          /\ IsNull(rendered.averagedWaveform)
          /\ IsNull(rendered.releaseWaveform)
          /\ IsNull(rendered.combinedWaveform)

\* after a session with both key lists long enough and a release offset that
\* fits the recording: three waveforms, at an interval other than the default
C26_Witness ==
    /\ Settled
    /\ ~IsNull(state.averagedWaveform)
    /\ ~IsNull(state.releaseWaveform)
    /\ ~IsNull(state.combinedWaveform)
    /\ state.peakIntervalMs = 7
    /\ Len(Val(state.combinedWaveform)) > Len(Val(state.averagedWaveform))

----------------------------------------------------------------------------
(* The terms of C27 *)

\* the windows that have a sample for peak-locked output index j (0-based):
\* the window's peak sits at the target peak sample
PeakCovering(j) ==
    {k \in 1..Len(SyncWindows) :
        LET sourceIndex == j - (TargetPeakSample - SyncWindows[k].peakIndex)
        IN sourceIndex >= 0 /\ sourceIndex < Len(SyncWindows[k].data)}

Contributors(j) == IF call.args.peakAlign THEN PeakCovering(j) ELSE Covering(j)

(* C27: every sample of a returned averaged waveform is the mean of at least
   one window sample: no output index has a contributor count of zero, in
   either alignment mode and for every peakPositionMs. *)
C27_EverySampleAveraged ==
    SyncHasWaveform => \A j \in 0..(Len(SyncOut) - 1) : Contributors(j) # {}

----------------------------------------------------------------------------
(* The terms of C30 *)

\* the hook's averaging gave a waveform: the session is one the history takes
HookGaveWaveform == ~IsNull(call.ret.result) /\ ~IsNull(Val(call.ret.result).waveform)

\* what the visualizer's windows effect computes for the measurement that
\* holds the same recording, timestamps and settings
VisualizerAttack ==
    calculateMeasurementAttackWaveform(call.args.audioData, call.args.keyDownTimestamps,
        call.args.keyUpTimestamps, call.args.offsetMs, call.args.peakAlign,
        call.args.peakPosMs, call.args.sampleRate)
VisualizerRelease ==
    calculateMeasurementReleaseWaveform(call.args.audioData, call.args.keyUpTimestamps,
        call.args.keyDownTimestamps, call.args.offsetMs, call.args.peakAlign,
        call.args.peakPosMs, call.args.sampleRate)

(* C30: for a newly recorded measurement the attackWindows and releaseWindows
   stored in the history are the windows (same anchors, same resolved ends)
   that produced the stored attackWaveform and releaseWaveform: the hook's
   averaging and the visualizer's recomputation agree on the same recording,
   timestamps and settings. *)
C30_WindowsMatchWaveforms ==
    /\ (HookAttackDone /\ HookGaveWaveform) =>
          /\ VisualizerAttack.windows = Val(call.ret.result).windows
          /\ VisualizerAttack.waveform = Val(call.ret.result).waveform
    /\ (HookReleaseDone /\ HookGaveWaveform) =>
          /\ VisualizerRelease.windows = Val(call.ret.result).windows
          /\ VisualizerRelease.waveform = Val(call.ret.result).waveform

----------------------------------------------------------------------------
(* The terms of C28 *)

\* the measurements the completion of the recording session k added
AddedBy(k) ==
    {i \in 1..Len(measurementHistory) :
        measurementHistory[i].origin = "recording" /\ measurementHistory[i].session = k}

(* C28: each recording session adds at most one measurement to the
   measurement history, however many times the completion effect re-runs
   after the session completed. *)
C28_OneMeasurementPerSession ==
    \A k \in 1..recordingSessionRef : Cardinality(AddedBy(k)) <= 1

\* both sessions completed and added their measurement, an import finished
\* after the second (the effect re-ran on the new nextMeasurementId), and the
\* peak position was changed after that
C28_Witness ==
    /\ recordingSessionRef = 2
    /\ Cardinality(AddedBy(1)) = 1
    /\ Cardinality(AddedBy(2)) = 1
    /\ Len(measurementHistory) = 3
    /\ measurementHistory[3].origin = "import"
    /\ rendered.status = "completed"
    /\ rendered.peakPositionMs = 4
    /\ state = rendered

(* C29: all measurements in the history have distinct ids, for any
   interleaving of recording completions and imports. *)
C29_DistinctIds ==
    \A i, j \in 1..Len(measurementHistory) :
        i # j => measurementHistory[i].id # measurementHistory[j].id
====
